---- MODULE Spec2Model ----
(***************************************************************************)
(* Model of ouroboros-systems: the electrical component network            *)
(* (ElectricalSystem, Generator, Bus, CircuitBreaker, GenericDcComponent), *)
(* the E170Systems orchestrator that builds and ticks one such network,    *)
(* the HydraulicActuator, and the CommunicationBus with the threads that   *)
(* send to it and receive from it.                                         *)
(*                                                                         *)
(* Numbers.  The program computes in f64/f32.  The model computes in       *)
(* integers with fixed units, and the parameter sets are chosen so that    *)
(* every quotient is exact:                                                *)
(*   voltage  volt          power       watt                               *)
(*   current  ampere        resistance  milliohm                           *)
(*   time     millisecond   (dt, time_on, spin_up_time, and the breaker's  *)
(*            overcurrent_time / trip_time / delays, which the code keeps  *)
(*            in seconds as dt / 1000.0)                                   *)
(*   speed    revolution per minute                                        *)
(***************************************************************************)
EXTENDS Integers, Sequences, FiniteSets, TLC

VARIABLES
    node_count,       \* graph: number of nodes, NodeIndex = 0 .. node_count-1
    graph_edges,      \* graph: sequence of <<from, to>> in insertion order
    components,       \* components: NodeIndex -> component
    node_voltage,     \* node_voltage: NodeIndex -> voltage snapshot
    edge_current,     \* edge_current: <<from, to>> -> current
    wire_resistance,  \* wire_resistance: <<from, to>> -> resistance
    update_log,       \* nodes whose update(dt) ran in the last update_system
    dwell,            \* observer of the breaker called directly: dt summed
                      \* over its updates with input current > rating and
                      \* over its updates while Tripped, the inputs last
                      \* written to it and those it held when it tripped
    last,             \* the last call made and what it returned
    actuator,         \* the HydraulicActuator under test
    e170,             \* E170Systems: elapsed_time and generator_on, and the
                      \* observer turn_on_calls of the turn_on() calls made
    comm              \* CommunicationBus::instance() and the threads calling it

vars == <<node_count, graph_edges, components, node_voltage, edge_current,
          wire_resistance, update_log, dwell, last, actuator, e170, comm>>

----------------------------------------------------------------------------
(* Bounds of the exploration *)

MaxNodes == 3

MaxEdges == 2

MaxTime == 400

MaxOnTime == 6

\* sends made to the CommunicationBus
MaxSends == 3

----------------------------------------------------------------------------
(* Small helpers *)

Min(a, b) == IF a <= b THEN a ELSE b

Max(a, b) == IF a >= b THEN a ELSE b

\* f64 division a / b for b > 0; the parameter sets keep it exact.
Quot(a, b) == IF a >= 0 THEN a \div b ELSE -((-a) \div b)

RECURSIVE Gcd(_, _)

Gcd(a, b) == IF b = 0 THEN a ELSE Gcd(b, a % b)

Nodes == 0 .. (node_count - 1)

Put(f, k, v) == [x \in (DOMAIN f) \cup {k} |-> IF x = k THEN v ELSE f[x]]

----------------------------------------------------------------------------
(* Generator (components/ac/generator.rs) *)

\* The efficiency argument is given in hundredths (0.95 is 95): the code
\* stores efficiency * 100.0 as the ratio, so the stored ratio is that
\* number of hundredths.  internal_resistance is in milliohm.
Generator_new(num_poles, rated_power, rated_voltage, rated_frequency, efficiency, internal_resistance, spin_up_time, phase_count) ==
    [kind |-> "Generator",
     num_poles |-> num_poles,
     rated_power |-> rated_power,
     rated_voltage |-> rated_voltage,
     rated_frequency |-> rated_frequency,
     efficiency |-> efficiency,
     internal_resistance |-> internal_resistance,
     mechanical_input_power |-> 0,
     rpm |-> Quot(rated_frequency * 60, num_poles),
     output_power |-> 0,
     output_voltage |-> 0,
     spin_up_time |-> spin_up_time,
     current_rpm |-> 0,
     is_on |-> FALSE,
     time_on |-> 0,
     phase_count |-> phase_count]

Generator_set_mechanical_input(g, power, rpm) ==
    IF g.is_on
    THEN [g EXCEPT !.mechanical_input_power = power, !.rpm = rpm]
    ELSE g

Generator_turn_on(g) == [g EXCEPT !.is_on = TRUE, !.time_on = 0]

Generator_turn_off(g) ==
    [g EXCEPT !.is_on = FALSE, !.output_voltage = 0, !.output_power = 0,
              !.current_rpm = 0]

\* rpm * min(1, time_on / spin_up_time * 1000), or rpm when spin_up_time <= 0
Generator_spun_rpm(rpm, time_on, spin_up_time) ==
    IF spin_up_time > 0
    THEN IF time_on * 1000 >= spin_up_time
         THEN rpm
         ELSE Quot(rpm * time_on * 1000, spin_up_time)
    ELSE rpm

Generator_update_on(g, dt) ==
    LET time_on == g.time_on + dt
        current_rpm == Generator_spun_rpm(g.rpm, time_on, g.spin_up_time)
        expected_rpm == Quot(g.rated_frequency * 60, g.num_poles)
        \* efficiency_factor = efficiency * ratio_num / ratio_den, the
        \* ratio rpm / expected_rpm in lowest terms
        d == Gcd(g.rpm, expected_rpm)
        ratio_num == IF current_rpm >= expected_rpm THEN 1 ELSE g.rpm \div d
        ratio_den == IF current_rpm >= expected_rpm THEN 1 ELSE expected_rpm \div d
        available == Quot(g.mechanical_input_power * g.efficiency * ratio_num,
                          ratio_den)
        output_power == Min(available, g.rated_power)
        \* voltage_drop = power / rated_voltage * phase_count * resistance
        voltage_drop == Quot(output_power * g.phase_count * g.internal_resistance,
                             g.rated_voltage * 1000)
    IN [g EXCEPT !.time_on = time_on,
                 !.current_rpm = current_rpm,
                 !.output_power = output_power,
                 !.output_voltage = Max(g.rated_voltage - voltage_drop, 0)]

\* Mutant: update without the early return of a generator that is off.
Generator_update_unguarded(g, dt) == Generator_update_on(g, dt)

Generator_update(g, dt) ==
    IF ~g.is_on
    THEN [g EXCEPT !.output_power = 0, !.output_voltage = 0, !.current_rpm = 0]
    ELSE Generator_update_on(g, dt)

Generator_get_output_current(g) ==
    IF g.output_voltage > 0 THEN Quot(g.output_power, g.output_voltage) ELSE 0

----------------------------------------------------------------------------
(* Bus (components/shared/bus.rs) *)

Bus_new(voltage, power) == [kind |-> "Bus", voltage |-> voltage, power |-> power]

----------------------------------------------------------------------------
(* CircuitBreaker (components/shared/circuit_breaker.rs) *)

\* TripCurve: Instantaneous, ShortDelay(delay), LongDelay(delay), InverseTime
Instantaneous == [curve |-> "Instantaneous", delay |-> 0]

ShortDelay(d) == [curve |-> "ShortDelay", delay |-> d]

LongDelay(d) == [curve |-> "LongDelay", delay |-> d]

InverseTime == [curve |-> "InverseTime", delay |-> 0]

CircuitBreaker_new(rating_amps, trip_curve, auto_reset, reset_delay) ==
    [kind |-> "CircuitBreaker",
     rating |-> rating_amps,
     is_tripped |-> FALSE,
     input_voltage |-> 0,
     input_power |-> 0,
     input_current |-> 0,
     trip_curve |-> trip_curve,
     overcurrent_time |-> 0,
     auto_reset |-> auto_reset,
     reset_delay |-> reset_delay,
     trip_time |-> 0]

CircuitBreaker_reset(c) ==
    [c EXCEPT !.is_tripped = FALSE, !.trip_time = 0, !.overcurrent_time = 0]

\* Mutant: the rating test of should_trip lets a current equal to the
\* rating through to the curve.
CircuitBreaker_should_trip_at_rating(c) ==
    IF c.input_current < c.rating
    THEN FALSE
    ELSE CASE c.trip_curve.curve = "Instantaneous" -> TRUE
           [] c.trip_curve.curve \in {"ShortDelay", "LongDelay"} ->
                  c.overcurrent_time >= c.trip_curve.delay
           [] c.trip_curve.curve = "InverseTime" ->
                  c.overcurrent_time * c.input_current * c.input_current
                      >= 100 * c.rating * c.rating

\* InverseTime: overcurrent_time >= 0.1 / (current / rating)^2, in
\* milliseconds and cross-multiplied by current^2 (> 0 on this path).
CircuitBreaker_should_trip(c) ==
    IF c.input_current <= c.rating
    THEN FALSE
    ELSE CASE c.trip_curve.curve = "Instantaneous" -> TRUE
           [] c.trip_curve.curve = "ShortDelay" ->
                  c.overcurrent_time >= c.trip_curve.delay
           [] c.trip_curve.curve = "LongDelay" ->
                  c.overcurrent_time >= c.trip_curve.delay
           [] c.trip_curve.curve = "InverseTime" ->
                  c.overcurrent_time * c.input_current * c.input_current
                      >= 100 * c.rating * c.rating

\* Mutant: the tripped branch of update without the auto_reset test.
CircuitBreaker_update_tripped_always(c, dt) ==
    LET t == [c EXCEPT !.trip_time = c.trip_time + dt]
    IN IF t.trip_time >= t.reset_delay THEN CircuitBreaker_reset(t) ELSE t

\* Mutant: the automatic reset waiting until trip_time is above reset_delay.
CircuitBreaker_update_tripped_late(c, dt) ==
    IF c.auto_reset
    THEN LET t == [c EXCEPT !.trip_time = c.trip_time + dt]
         IN IF t.trip_time > t.reset_delay THEN CircuitBreaker_reset(t) ELSE t
    ELSE c

CircuitBreaker_update_tripped(c, dt) ==
    IF c.auto_reset
    THEN LET t == [c EXCEPT !.trip_time = c.trip_time + dt]
         IN IF t.trip_time >= t.reset_delay THEN CircuitBreaker_reset(t) ELSE t
    ELSE c

\* Mutant: the closed branch of update without the reset of
\* overcurrent_time on an update at or below the rating.
CircuitBreaker_update_closed_keeping(c, dt) ==
    LET t == [c EXCEPT !.overcurrent_time =
                  IF c.input_current > c.rating
                  THEN c.overcurrent_time + dt ELSE c.overcurrent_time]
    IN IF CircuitBreaker_should_trip(t)
       THEN [t EXCEPT !.is_tripped = TRUE, !.trip_time = 0]
       ELSE t

\* Mutant: the closed branch of update counting a current equal to the
\* rating as overcurrent.
CircuitBreaker_update_closed_at_rating(c, dt) ==
    LET t == [c EXCEPT !.overcurrent_time =
                  IF c.input_current >= c.rating
                  THEN c.overcurrent_time + dt ELSE 0]
    IN IF CircuitBreaker_should_trip(t)
       THEN [t EXCEPT !.is_tripped = TRUE, !.trip_time = 0]
       ELSE t

CircuitBreaker_update_closed(c, dt) ==
    LET t == [c EXCEPT !.overcurrent_time =
                  IF c.input_current > c.rating
                  THEN c.overcurrent_time + dt ELSE 0]
    IN IF CircuitBreaker_should_trip(t)
       THEN [t EXCEPT !.is_tripped = TRUE, !.trip_time = 0]
       ELSE t

CircuitBreaker_update(c, dt) ==
    IF c.is_tripped
    THEN CircuitBreaker_update_tripped(c, dt)
    ELSE CircuitBreaker_update_closed(c, dt)

CircuitBreaker_get_output_power(c) == IF c.is_tripped THEN 0 ELSE c.input_power

\* Mutant: get_output_voltage without the is_tripped test.
CircuitBreaker_get_output_voltage_latched(c) == c.input_voltage

CircuitBreaker_get_output_voltage(c) ==
    IF c.is_tripped THEN 0 ELSE c.input_voltage

CircuitBreaker_get_output_current(c) ==
    IF c.is_tripped THEN 0 ELSE c.input_current

----------------------------------------------------------------------------
(* GenericDcComponent (components/dc/generic_dc_component.rs) *)

\* power_factor and load_factor are kept in percent
GenericDcComponent_new(nominal_voltage, nominal_power, min_voltage, max_voltage, voltage_response, power_factor) ==
    [kind |-> "GenericDcComponent",
     nominal_voltage |-> nominal_voltage,
     nominal_power |-> nominal_power,
     min_voltage |-> min_voltage,
     max_voltage |-> max_voltage,
     voltage_response |-> voltage_response,
     power_factor |-> Max(0, Min(power_factor, 100)),
     input_voltage |-> 0,
     input_power |-> 0,
     input_current |-> 0,
     is_on |-> FALSE,
     load_factor |-> 100]

GenericDcComponent_set_power_state(c, on) == [c EXCEPT !.is_on = on]

\* Mutant: set_load_factor without the clamp.
GenericDcComponent_set_load_factor_unclamped(c, factor) ==
    [c EXCEPT !.load_factor = factor]

GenericDcComponent_set_load_factor(c, factor) ==
    [c EXCEPT !.load_factor = Max(0, Min(factor, 100))]

\* Mutant: the voltage_factor of the Proportional response without .min(1.0).
GenericDcComponent_voltage_factor_uncapped(c) ==
    LET num == c.input_voltage - c.min_voltage
        den == c.nominal_voltage - c.min_voltage
    IN IF den = 0 THEN 100
       ELSE IF den > 0 THEN Quot(num * 100, den)
       ELSE -Quot(num * 100, -den)

\* voltage_factor of the Proportional response, in percent:
\* ((input - min) / (nominal - min)).min(1.0), on the path input >= min.
\* A zero denominator gives NaN or +inf, and f64::min answers 1.0 to both.
GenericDcComponent_voltage_factor(c) ==
    LET num == c.input_voltage - c.min_voltage
        den == c.nominal_voltage - c.min_voltage
    IN IF den = 0 THEN 100
       ELSE IF den > 0 THEN Min(Quot(num * 100, den), 100)
       ELSE -Quot(num * 100, -den)

\* Mutant: the Binary response scaled by input voltage / nominal voltage,
\* as the Linear response is.
GenericDcComponent_get_actual_power_scaled(c) ==
    IF c.is_on /\ c.input_voltage >= c.min_voltage
    THEN Quot(Quot(c.nominal_power * c.input_voltage, c.nominal_voltage)
                  * c.load_factor * c.power_factor, 10000)
    ELSE 0

GenericDcComponent_get_actual_power(c) ==
    CASE c.voltage_response = "Binary" ->
             IF c.input_voltage >= c.min_voltage /\ c.is_on
             THEN Quot(c.nominal_power * c.load_factor * c.power_factor, 10000)
             ELSE 0
      [] c.voltage_response = "Linear" ->
             IF ~c.is_on \/ c.input_voltage < c.min_voltage
             THEN 0
             ELSE Quot(Quot(c.nominal_power * c.input_voltage, c.nominal_voltage)
                           * c.load_factor * c.power_factor, 10000)
      [] c.voltage_response = "Regulated" ->
             IF ~c.is_on \/ c.input_voltage < c.min_voltage
             THEN 0
             ELSE Quot(c.nominal_power * c.load_factor * c.power_factor, 10000)
      [] c.voltage_response = "Proportional" ->
             IF ~c.is_on \/ c.input_voltage < c.min_voltage
             THEN 0
             ELSE Quot(Quot(c.nominal_power * GenericDcComponent_voltage_factor(c), 100)
                           * c.power_factor * c.load_factor, 10000)

\* in milliampere
GenericDcComponent_get_input_current(c) ==
    IF c.input_voltage > 0
    THEN Quot(GenericDcComponent_get_actual_power(c) * 1000, c.input_voltage)
    ELSE 0

----------------------------------------------------------------------------
(* f64 values of the hydraulic model: a finite number, NaN, or an infinity *)
(* of sign v.  Finite values are integers in the units given with the      *)
(* actuator; every zero the actuator computes is +0.                       *)

Fin(x) == [t |-> "fin", v |-> x]

NaN == [t |-> "nan", v |-> 0]

Inf(s) == [t |-> "inf", v |-> s]

Sgn(x) == IF x > 0 THEN 1 ELSE IF x < 0 THEN -1 ELSE 0

Abs(x) == IF x < 0 THEN -x ELSE x

FSign(a) == IF a.t = "inf" THEN a.v ELSE Sgn(a.v)

FNeg(a) == IF a.t = "nan" THEN a ELSE [a EXCEPT !.v = -a.v]

FAbs(a) == IF a.t = "nan" THEN a ELSE [a EXCEPT !.v = Abs(a.v)]

FAdd(a, b) ==
    IF a.t = "nan" \/ b.t = "nan" THEN NaN
    ELSE IF a.t = "inf" /\ b.t = "inf" THEN (IF a.v = b.v THEN a ELSE NaN)
    ELSE IF a.t = "inf" THEN a
    ELSE IF b.t = "inf" THEN b
    ELSE Fin(a.v + b.v)

FSub(a, b) == FAdd(a, FNeg(b))

FMul(a, b) ==
    IF a.t = "nan" \/ b.t = "nan" THEN NaN
    ELSE IF a.t = "inf" \/ b.t = "inf"
         THEN (IF FSign(a) = 0 \/ FSign(b) = 0 THEN NaN ELSE Inf(FSign(a) * FSign(b)))
    ELSE Fin(a.v * b.v)

\* a / b; a finite quotient is truncated
FDiv(a, b) ==
    IF a.t = "nan" \/ b.t = "nan" THEN NaN
    ELSE IF a.t = "inf"
         THEN (IF b.t = "inf" THEN NaN ELSE Inf(a.v * (IF FSign(b) < 0 THEN -1 ELSE 1)))
    ELSE IF b.t = "inf" THEN Fin(0)
    ELSE IF b.v = 0 THEN (IF a.v = 0 THEN NaN ELSE Inf(Sgn(a.v)))
    ELSE Fin(Sgn(a.v) * Sgn(b.v) * (Abs(a.v) \div Abs(b.v)))

\* a < b; every comparison with NaN is false
FLt(a, b) ==
    /\ a.t # "nan"
    /\ b.t # "nan"
    /\ IF a.t = "inf" /\ b.t = "inf" THEN a.v < b.v
       ELSE IF a.t = "inf" THEN a.v < 0
       ELSE IF b.t = "inf" THEN b.v > 0
       ELSE a.v < b.v

FLe(a, b) == a.t # "nan" /\ b.t # "nan" /\ ~FLt(b, a)

----------------------------------------------------------------------------
(* HydraulicActuator (systems/hydraulic/components/hydraulic_actuator.rs)  *)
(*                                                                         *)
(* Units: time in millisecond; valve opening in hundredths; a flow, and a  *)
(* leakage coefficient times a pressure, in hundredths of the flow unit;   *)
(* an area in pi/4 of the squared length unit; mass in units of the        *)
(* effective mass, so acceleration and force share a number; velocity in   *)
(* acceleration unit times millisecond and no finer than 1e-6 m/s;         *)
(* position in half a velocity unit times millisecond.                     *)

\* area of a circle given the diameter: PI * (d / 2) * (d / 2)
calculate_area(diameter) == FMul(diameter, diameter)

clamp(value, min, max) ==
    IF FLt(value, min) THEN min
    ELSE IF FLt(max, value) THEN max
    ELSE value

HydraulicActuator_new(bore_diameter, rod_diameter, stroke_length, fluid_bulk_modulus, fluid_density, fluid_viscosity, valve_max_flow_rate, static_friction, dynamic_friction_coefficient, internal_leakage_coefficient, external_leakage_coefficient) ==
    LET current_position == Fin(0)
        cap_end_area == calculate_area(bore_diameter)
        rod_end_area == FSub(calculate_area(rod_diameter), calculate_area(rod_diameter))
    IN [bore_diameter |-> bore_diameter,
        rod_diameter |-> rod_diameter,
        stroke_length |-> stroke_length,
        current_position |-> current_position,
        current_velocity |-> Fin(0),
        current_acceleration |-> Fin(0),
        fluid_bulk_modulus |-> fluid_bulk_modulus,
        fluid_density |-> fluid_density,
        fluid_viscosity |-> fluid_viscosity,
        valve_max_flow_rate |-> valve_max_flow_rate,
        valve_opening |-> Fin(0),
        cap_end_pressure |-> Fin(0),
        rod_end_pressure |-> Fin(0),
        cap_end_volume |-> FMul(cap_end_area, current_position),
        rod_end_volume |-> FMul(rod_end_area, FSub(stroke_length, current_position)),
        internal_leakage_coefficient |-> internal_leakage_coefficient,
        external_leakage_coefficient |-> external_leakage_coefficient,
        static_friction |-> static_friction,
        dynamic_friction_coefficient |-> dynamic_friction_coefficient,
        external_force |-> Fin(0)]

HydraulicActuator_set_valve_opening(a, opening) ==
    [a EXCEPT !.valve_opening = clamp(opening, Fin(0), Fin(100))]

HydraulicActuator_set_external_force(a, force) == [a EXCEPT !.external_force = force]

HydraulicActuator_set_supply_pressure(a, pressure) ==
    IF FLt(Fin(0), a.valve_opening)
    THEN [a EXCEPT !.cap_end_pressure = pressure]
    ELSE a

\* what update computes before it touches the position: the chamber
\* pressures, the forces, and the velocity and acceleration integrated
HydraulicActuator_dynamics(a, delta_time) ==
    LET cap_end_area == calculate_area(a.bore_diameter)
        rod_end_area == FSub(calculate_area(a.rod_diameter), calculate_area(a.rod_diameter))
        max_flow == FMul(a.valve_max_flow_rate, a.valve_opening)
        delta_p == FSub(a.cap_end_pressure, a.rod_end_pressure)
        internal_leakage_flow == FMul(a.internal_leakage_coefficient, delta_p)
        cap_external_leakage_flow == FMul(a.external_leakage_coefficient, a.cap_end_pressure)
        rod_external_leakage_flow == FMul(a.external_leakage_coefficient, a.rod_end_pressure)
        cap_end_flow == IF FLt(Fin(0), a.valve_opening) THEN max_flow ELSE Fin(0)
        rod_end_flow == IF FLt(a.valve_opening, Fin(0)) THEN FNeg(max_flow) ELSE Fin(0)
        net_cap_flow == FSub(FSub(cap_end_flow, internal_leakage_flow), cap_external_leakage_flow)
        net_rod_flow == FSub(FSub(rod_end_flow, internal_leakage_flow), rod_external_leakage_flow)
        cap_pressure_change ==
            FNeg(FMul(a.fluid_bulk_modulus,
                      FDiv(FMul(net_cap_flow, delta_time), a.cap_end_volume)))
        rod_pressure_change ==
            FNeg(FMul(a.fluid_bulk_modulus,
                      FDiv(FMul(net_rod_flow, delta_time), a.rod_end_volume)))
        cap_end_pressure == FAdd(a.cap_end_pressure, cap_pressure_change)
        rod_end_pressure == FAdd(a.rod_end_pressure, rod_pressure_change)
        hydraulic_force == FSub(FMul(cap_end_pressure, cap_end_area),
                                FMul(rod_end_pressure, rod_end_area))
        driving_force == FAdd(hydraulic_force, a.external_force)
        \* |velocity| < 1e-6: of the velocities of the model, only 0
        friction_force ==
            IF FLt(FAbs(a.current_velocity), Fin(1))
            THEN clamp(driving_force, FNeg(a.static_friction), a.static_friction)
            ELSE LET direction == IF FLt(Fin(0), a.current_velocity) THEN Fin(1) ELSE Fin(-1)
                 IN FMul(FMul(direction, a.dynamic_friction_coefficient),
                         FAbs(a.current_velocity))
        net_force == FSub(driving_force, friction_force)
        \* effective_mass is the constant 1 kg
        acceleration == FDiv(net_force, Fin(1))
        velocity == FAdd(a.current_velocity, FMul(acceleration, delta_time))
        \* velocity * dt + 0.5 * acceleration * dt * dt, in half units
        position_change == FAdd(FMul(Fin(2), FMul(velocity, delta_time)),
                                FMul(FMul(acceleration, delta_time), delta_time))
    IN [cap_end_area |-> cap_end_area,
        rod_end_area |-> rod_end_area,
        cap_end_flow |-> cap_end_flow,
        rod_end_flow |-> rod_end_flow,
        cap_end_pressure |-> cap_end_pressure,
        rod_end_pressure |-> rod_end_pressure,
        driving_force |-> driving_force,
        friction_force |-> friction_force,
        acceleration |-> acceleration,
        velocity |-> velocity,
        integrated_position |-> FAdd(a.current_position, position_change)]

HydraulicActuator_update(a, delta_time) ==
    LET d == HydraulicActuator_dynamics(a, delta_time)
        position == clamp(d.integrated_position, Fin(0), a.stroke_length)
        at_bottom == FLe(position, Fin(0))
        at_top == FLe(a.stroke_length, position)
        stopped == /\ at_bottom \/ at_top
                   /\ \/ at_bottom /\ FLt(d.velocity, Fin(0))
                      \/ at_top /\ FLt(Fin(0), d.velocity)
    IN [a EXCEPT !.cap_end_pressure = d.cap_end_pressure,
                 !.rod_end_pressure = d.rod_end_pressure,
                 !.current_acceleration = IF stopped THEN Fin(0) ELSE d.acceleration,
                 !.current_velocity = IF stopped THEN Fin(0) ELSE d.velocity,
                 !.current_position = position,
                 !.cap_end_volume = FMul(d.cap_end_area, position),
                 !.rod_end_volume = FMul(d.rod_end_area, FSub(a.stroke_length, position))]

----------------------------------------------------------------------------
(* trait ElectricalComponent, dispatched on the concrete kind *)

update(c, dt) ==
    CASE c.kind = "Generator" -> Generator_update(c, dt)
      [] c.kind = "Bus" -> c
      [] c.kind = "CircuitBreaker" -> CircuitBreaker_update(c, dt)
      [] c.kind = "GenericDcComponent" -> c

get_output_power(c) ==
    CASE c.kind = "Generator" -> c.output_power
      [] c.kind = "Bus" -> c.power
      [] c.kind = "CircuitBreaker" -> CircuitBreaker_get_output_power(c)
      [] c.kind = "GenericDcComponent" -> 0

get_output_voltage(c) ==
    CASE c.kind = "Generator" -> c.output_voltage
      [] c.kind = "Bus" -> c.voltage
      [] c.kind = "CircuitBreaker" -> CircuitBreaker_get_output_voltage(c)
      [] c.kind = "GenericDcComponent" -> 0

\* Bus keeps the trait's default (power / voltage when voltage > 0)
get_output_current(c) ==
    CASE c.kind = "Generator" -> Generator_get_output_current(c)
      [] c.kind = "Bus" ->
             IF c.voltage > 0 THEN Quot(c.power, c.voltage) ELSE 0
      [] c.kind = "CircuitBreaker" -> CircuitBreaker_get_output_current(c)
      [] c.kind = "GenericDcComponent" -> 0

set_input_power(c, power) ==
    CASE c.kind = "Generator" -> c
      [] c.kind = "Bus" -> [c EXCEPT !.power = power]
      [] c.kind = "CircuitBreaker" -> [c EXCEPT !.input_power = power]
      [] c.kind = "GenericDcComponent" -> [c EXCEPT !.input_power = power]

\* Mutant: a Tripped breaker leaving set_input_voltage unheeded.
set_input_voltage_while_closed(c, voltage) ==
    CASE c.kind = "Generator" -> c
      [] c.kind = "Bus" -> [c EXCEPT !.voltage = voltage]
      [] c.kind = "CircuitBreaker" ->
             IF c.is_tripped THEN c ELSE [c EXCEPT !.input_voltage = voltage]
      [] c.kind = "GenericDcComponent" -> [c EXCEPT !.input_voltage = voltage]

set_input_voltage(c, voltage) ==
    CASE c.kind = "Generator" -> c
      [] c.kind = "Bus" -> [c EXCEPT !.voltage = voltage]
      [] c.kind = "CircuitBreaker" -> [c EXCEPT !.input_voltage = voltage]
      [] c.kind = "GenericDcComponent" -> [c EXCEPT !.input_voltage = voltage]

set_input_current(c, current) ==
    CASE c.kind = "Generator" -> c
      [] c.kind = "Bus" -> c
      [] c.kind = "CircuitBreaker" -> [c EXCEPT !.input_current = current]
      [] c.kind = "GenericDcComponent" -> [c EXCEPT !.input_current = current]

----------------------------------------------------------------------------
(* ElectricalSystem (systems/electrical/mod.rs) *)

\* graph.neighbors(n): targets of n's outgoing edges, most recently added
\* first (petgraph walks the node's outgoing-edge list from its head).
RECURSIVE neighbors_from(_, _, _)

neighbors_from(edges, n, i) ==
    IF i = 0 THEN <<>>
    ELSE IF edges[i][1] = n
         THEN <<edges[i][2]>> \o neighbors_from(edges, n, i - 1)
         ELSE neighbors_from(edges, n, i - 1)

neighbors(edges, n) == neighbors_from(edges, n, Len(edges))

Position(order, n) == CHOOSE i \in 1 .. Len(order) : order[i] = n

\* petgraph::algo::toposort, first phase: iterative depth-first search
\* over the nodes in reverse index order, collecting the finish order.
\* A successor equal to the node itself ends the search with Err(Cycle).
RECURSIVE dfs_run(_, _)

dfs_run(edges, s) ==
    IF s.err \/ s.stack = <<>> THEN s
    ELSE LET nx == s.stack[Len(s.stack)]
             rest == SubSeq(s.stack, 1, Len(s.stack) - 1)
         IN IF nx \notin s.discovered
            THEN LET disc == s.discovered \cup {nx}
                     succs == neighbors(edges, nx)
                     Fresh(x) == x \notin disc
                 IN IF \E i \in 1 .. Len(succs) : succs[i] = nx
                    THEN [s EXCEPT !.err = TRUE]
                    ELSE dfs_run(edges,
                                 [s EXCEPT !.discovered = disc,
                                           !.stack = s.stack \o SelectSeq(succs, Fresh)])
            ELSE IF nx \notin s.finished
                 THEN dfs_run(edges,
                              [s EXCEPT !.stack = rest,
                                        !.finished = s.finished \cup {nx},
                                        !.finish_stack = Append(s.finish_stack, nx)])
                 ELSE dfs_run(edges, [s EXCEPT !.stack = rest])

RECURSIVE dfs_roots(_, _, _)

dfs_roots(edges, s, i) ==
    IF i < 0 \/ s.err THEN s
    ELSE IF i \in s.discovered
         THEN dfs_roots(edges, s, i - 1)
         ELSE dfs_roots(edges, dfs_run(edges, [s EXCEPT !.stack = <<i>>]), i - 1)

Reverse(q) == [i \in 1 .. Len(q) |-> q[Len(q) + 1 - i]]

\* Mutant: the nodes in index order, as graph.node_indices() gives them.
toposort_by_index(n, edges) ==
    [ok |-> TRUE, order |-> [i \in 1 .. n |-> i - 1]]

\* Second phase: walking the reversed finish order, a search over the
\* reversed graph must discover nothing but the node itself, that is, no
\* edge may enter a node from one that comes later in the order.
toposort(n, edges) ==
    LET s == dfs_roots(edges,
                       [stack |-> <<>>, discovered |-> {}, finished |-> {},
                        finish_stack |-> <<>>, err |-> FALSE],
                       n - 1)
        order == Reverse(s.finish_stack)
    IN IF s.err
       THEN [ok |-> FALSE, order |-> <<>>]
       ELSE IF \E i \in 1 .. Len(edges) :
                   Position(order, edges[i][1]) > Position(order, edges[i][2])
            THEN [ok |-> FALSE, order |-> <<>>]
            ELSE [ok |-> TRUE, order |-> order]

\* what the set_input_* calls made so far have left in a component (a Bus
\* keeps them as its voltage and power, a Generator keeps nothing)
held_inputs(c) ==
    CASE c.kind = "Generator" -> [voltage |-> 0, power |-> 0, current |-> 0]
      [] c.kind = "Bus" -> [voltage |-> c.voltage, power |-> c.power, current |-> 0]
      [] OTHER -> [voltage |-> c.input_voltage, power |-> c.input_power,
                   current |-> c.input_current]

\* first loop of update_system: in order, update(dt) on the node's
\* component, then node_voltage.insert(node, its output voltage); held
\* records the inputs the component had when its update ran
RECURSIVE update_pass(_, _, _, _)

update_pass(st, order, i, dt) ==
    IF i > Len(order) THEN st
    ELSE LET node == order[i]
             c == update(st.comps[node], dt)
         IN update_pass([comps |-> [st.comps EXCEPT ![node] = c],
                         nv |-> Put(st.nv, node, get_output_voltage(c)),
                         log |-> Append(st.log, node),
                         held |-> Put(st.held, node, held_inputs(st.comps[node]))],
                        order, i + 1, dt)

\* current of one wire: voltage_diff / resistance, 0 when resistance <= 0
\* (volt * 1000 / milliohm = ampere)
wire_current(v_from, v_to, resistance) ==
    IF resistance > 0 THEN Quot((v_from - v_to) * 1000, resistance) ELSE 0

RECURSIVE current_flow_from(_, _, _, _, _)

current_flow_from(comps, edges, wr, ec, i) ==
    IF i > Len(edges) THEN ec
    ELSE LET e == edges[i]
             current == wire_current(get_output_voltage(comps[e[1]]),
                                     get_output_voltage(comps[e[2]]), wr[e])
         IN current_flow_from(comps, edges, wr, Put(ec, e, current), i + 1)

calculate_current_flow(comps, edges, wr, ec) ==
    current_flow_from(comps, edges, wr, ec, 1)

\* inner loop of the second pass: push node's outputs onto each neighbour
RECURSIVE push_outputs(_, _, _, _, _, _, _)

push_outputs(comps, ec, node, nbrs, j, output_voltage, output_power) ==
    IF j > Len(nbrs) THEN comps
    ELSE LET nb == nbrs[j]
             c == set_input_current(
                      set_input_power(
                          set_input_voltage(comps[nb], output_voltage),
                          output_power),
                      ec[<<node, nb>>])
         IN push_outputs([comps EXCEPT ![nb] = c], ec, node, nbrs, j + 1,
                         output_voltage, output_power)

RECURSIVE propagate_pass(_, _, _, _, _)

propagate_pass(comps, edges, ec, order, i) ==
    IF i > Len(order) THEN comps
    ELSE LET node == order[i]
         IN propagate_pass(
                push_outputs(comps, ec, node, neighbors(edges, node), 1,
                             get_output_voltage(comps[node]),
                             get_output_power(comps[node])),
                edges, ec, order, i + 1)

\* every timer of every component stays within the explored range
TimersWithin(comps, bound) ==
    \A n \in DOMAIN comps :
        /\ comps[n].kind = "Generator" => comps[n].time_on <= bound
        /\ comps[n].kind = "CircuitBreaker" =>
               /\ comps[n].overcurrent_time <= bound
               /\ comps[n].trip_time <= bound

----------------------------------------------------------------------------
(* Inputs of the exploration *)

\* Bus, breaker and load of E170Systems::new (systems/mod.rs), the breaker
\* with a reset delay short enough to elapse within MaxTime
MainBus == Bus_new(28, 0)

LightsCb == CircuitBreaker_new(10, ShortDelay(100), TRUE, 200)

TestLight == GenericDcComponent_new(28, 200, 20, 32, "Binary", 90)

NetComponents == {MainBus, LightsCb, TestLight}

\* wire resistances in milliohm; connect_no_resistance adds 1 (0.001 ohm)
Resistances == {0, 20}

NetDts == {0, 100}

\* A NodeIndex is a bare index; the model also records which network's
\* add_component issued it.  The code reads only ix.
IssuedHandles == [net : {"this"}, ix : Nodes]

ForeignHandles == [net : {"other"}, ix : 0 .. (MaxNodes - 1)]

----------------------------------------------------------------------------
(* Operations of ElectricalSystem *)

\* The caller registers every component while it assembles the network,
\* before the first connect or tick (E170Systems::new hands the handle of
\* each add_component to the connects that follow).
add_component(component) ==
    /\ node_count < MaxNodes
    /\ last.op \in {"new", "add_component"}
    /\ node_count' = node_count + 1
    /\ components' = Put(components, node_count, component)
    /\ last' = [op |-> "add_component", ret |-> [net |-> "this", ix |-> node_count]]
    /\ UNCHANGED <<graph_edges, node_voltage, edge_current, wire_resistance,
                   update_log, dwell,
                   actuator, e170, comm>>

\* graph.add_edge panics, before changing anything, when an index is not a
\* node of the graph; otherwise it appends the edge (parallel edges and
\* self-loops included) and the two maps are written.
connect_with_wire(from, to, resistance) ==
    LET foreign == from.net # "this" \/ to.net # "this"
        e == <<from.ix, to.ix>>
    IN IF from.ix \in Nodes /\ to.ix \in Nodes
       THEN /\ Len(graph_edges) < MaxEdges
            /\ graph_edges' = Append(graph_edges, e)
            /\ edge_current' = Put(edge_current, e, 0)
            /\ wire_resistance' = Put(wire_resistance, e, resistance)
            /\ last' = [op |-> "connect_with_wire", ret |-> "returned",
                        foreign |-> foreign, edges_before |-> Len(graph_edges)]
            /\ UNCHANGED <<node_count, components, node_voltage, update_log, dwell,
                   actuator, e170, comm>>
       ELSE /\ last' = [op |-> "connect_with_wire", ret |-> "panicked",
                        foreign |-> foreign, edges_before |-> Len(graph_edges)]
            /\ UNCHANGED <<node_count, graph_edges, components, node_voltage,
                           edge_current, wire_resistance, update_log, dwell,
                   actuator, e170, comm>>

connect_no_resistance(from, to) == connect_with_wire(from, to, 1)

\* update_system on the graph as it stands: the three passes when
\* toposort answers Ok, nothing when it answers Err
update_system_in(n, edges, wr, comps, nv, ec, dt) ==
    LET sorted == toposort(n, edges)
    IN IF sorted.ok
       THEN LET first == update_pass([comps |-> comps, nv |-> nv, log |-> <<>>,
                                      held |-> <<>>],
                                     sorted.order, 1, dt)
                currents == calculate_current_flow(first.comps, edges, wr, ec)
                pushed == propagate_pass(first.comps, edges, currents,
                                         sorted.order, 1)
            IN [comps |-> pushed, nv |-> first.nv, ec |-> currents,
                log |-> first.log, held |-> first.held]
       ELSE [comps |-> comps, nv |-> nv, ec |-> ec, log |-> <<>>, held |-> <<>>]

\* update_system on this network's graph
update_system_on(comps, nv, ec, dt) ==
    update_system_in(node_count, graph_edges, wire_resistance, comps, nv, ec, dt)

update_system(dt) ==
    LET r == update_system_on(components, node_voltage, edge_current, dt)
    IN /\ TimersWithin(r.comps, MaxTime)
       /\ components' = r.comps
       /\ node_voltage' = r.nv
       /\ edge_current' = r.ec
       /\ update_log' = r.log
       /\ last' = [op |-> "update_system", ret |-> "returned", held |-> r.held]
       /\ UNCHANGED <<node_count, graph_edges, wire_resistance, dwell,
                      actuator, e170, comm>>

\* Mutant: check_overcurrent reporting a current equal to max_current too.
check_overcurrent_inclusive(ec, max_current) ==
    {<<e[1], e[2], ec[e]>> : e \in {x \in DOMAIN ec : ec[x] >= max_current}}

\* check_overcurrent(max_current): the edges whose cached current is above
\* max_current, each with its current; &self, nothing is written
check_overcurrent(ec, max_current) ==
    {<<e[1], e[2], ec[e]>> : e \in {x \in DOMAIN ec : ec[x] > max_current}}

call_check_overcurrent(max_current) ==
    /\ last' = [op |-> "check_overcurrent", args |-> <<max_current>>,
                ret |-> check_overcurrent(edge_current, max_current),
                before |-> [components |-> components, edge_current |-> edge_current]]
    /\ UNCHANGED <<node_count, graph_edges, components, node_voltage,
                   edge_current, wire_resistance, update_log, dwell,
                   actuator, e170, comm>>

\* Option<T>: None, or Some(x)
None == [some |-> FALSE]

Some(x) == [some |-> TRUE, value |-> x]

\* Mutant: get_current answering 0 A for a pair that has no entry.
get_current_or_zero(ec, from, to) ==
    IF <<from, to>> \in DOMAIN ec THEN Some(ec[<<from, to>>]) ELSE Some(0)

\* get_current(from, to): edge_current.get(&(from, to)).copied()
get_current(ec, from, to) ==
    IF <<from, to>> \in DOMAIN ec THEN Some(ec[<<from, to>>]) ELSE None

call_get_current(from, to) ==
    /\ last' = [op |-> "get_current", args |-> <<from, to>>,
                ret |-> get_current(edge_current, from.ix, to.ix)]
    /\ UNCHANGED <<node_count, graph_edges, components, node_voltage,
                   edge_current, wire_resistance, update_log, dwell,
                   actuator, e170, comm>>

\* The concrete types a Box<dyn ElectricalComponent> can hold
ComponentKinds == {"Generator", "Bus", "CircuitBreaker", "GenericDcComponent"}

\* downcast_ref::<T>() / downcast_mut::<T>(): Any answers Some only when T
\* is the type the box was built from
downcast_ref(c, T) == IF c.kind = T THEN Some(c) ELSE None

call_downcast_ref(n, T) ==
    /\ n \in Nodes
    /\ last' = [op |-> "downcast_ref", node |-> n, args |-> <<T>>,
                ret |-> downcast_ref(components[n], T)]
    /\ UNCHANGED <<node_count, graph_edges, components, node_voltage,
                   edge_current, wire_resistance, update_log, dwell,
                   actuator, e170, comm>>

----------------------------------------------------------------------------
(* Operations called on one component of a node (downcast_mut, then the call) *)

NoInputs == [voltage |-> 0, power |-> 0, current |-> 0]

NoDwell ==
    [total |-> 0, run |-> 0, trip |-> 0, written |-> NoInputs, at_trip |-> NoInputs]

\* no actuator, no orchestrator: the network is driven directly
NoActuator == <<>>

NoE170 == <<>>

Called(op, n, args) ==
    last' = [op |-> op, node |-> n, args |-> args, pre |-> components[n]]

OnNode(n, c) ==
    /\ components' = [components EXCEPT ![n] = c]
    /\ UNCHANGED <<node_count, graph_edges, node_voltage, edge_current,
                   wire_resistance, update_log>>

Generator_call_turn_on(n) ==
    /\ components[n].kind = "Generator"
    /\ OnNode(n, Generator_turn_on(components[n]))
    /\ Called("turn_on", n, <<>>)
    /\ UNCHANGED <<dwell, actuator, e170, comm>>

Generator_call_turn_off(n) ==
    /\ components[n].kind = "Generator"
    /\ OnNode(n, Generator_turn_off(components[n]))
    /\ Called("turn_off", n, <<>>)
    /\ UNCHANGED <<dwell, actuator, e170, comm>>

Generator_call_set_mechanical_input(n, power, rpm) ==
    /\ components[n].kind = "Generator"
    /\ OnNode(n, Generator_set_mechanical_input(components[n], power, rpm))
    /\ Called("set_mechanical_input", n, <<power, rpm>>)
    /\ UNCHANGED <<dwell, actuator, e170, comm>>

Generator_call_update(n, dt) ==
    /\ components[n].kind = "Generator"
    /\ components[n].time_on + dt <= MaxOnTime
    /\ OnNode(n, update(components[n], dt))
    /\ Called("update", n, <<dt>>)
    /\ UNCHANGED <<dwell, actuator, e170, comm>>

\* set_input_voltage / set_input_power / set_input_current through the trait
call_set_input_voltage(n, v) ==
    /\ OnNode(n, set_input_voltage(components[n], v))
    /\ Called("set_input_voltage", n, <<v>>)
    /\ dwell' = IF components[n].kind = "CircuitBreaker"
                THEN [dwell EXCEPT !.written.voltage = v] ELSE dwell
    /\ UNCHANGED <<actuator, e170, comm>>

call_set_input_power(n, p) ==
    /\ OnNode(n, set_input_power(components[n], p))
    /\ Called("set_input_power", n, <<p>>)
    /\ dwell' = IF components[n].kind = "CircuitBreaker"
                THEN [dwell EXCEPT !.written.power = p] ELSE dwell
    /\ UNCHANGED <<actuator, e170, comm>>

call_set_input_current(n, i) ==
    /\ OnNode(n, set_input_current(components[n], i))
    /\ Called("set_input_current", n, <<i>>)
    /\ dwell' = IF components[n].kind = "CircuitBreaker"
                THEN [dwell EXCEPT !.written.current = i] ELSE dwell
    /\ UNCHANGED <<actuator, e170, comm>>

CircuitBreaker_call_reset(n) ==
    /\ components[n].kind = "CircuitBreaker"
    /\ OnNode(n, CircuitBreaker_reset(components[n]))
    /\ Called("reset", n, <<>>)
    /\ dwell' = [NoDwell EXCEPT !.written = dwell.written, !.at_trip = dwell.at_trip]
    /\ UNCHANGED <<actuator, e170, comm>>

\* The observer counts the updates a Closed breaker makes with its input
\* current above its rating: total sums their dt since construction or the
\* last reset, run sums it since the last update that was not one of them.
\* trip sums the dt of the updates made since the breaker tripped (it keeps
\* the sum an automatic reset was made at until the next update), and
\* at_trip keeps the inputs the breaker held when it tripped.
CircuitBreaker_call_update(n, dt) ==
    LET c == components[n]
        post == update(c, dt)
        over == c.input_current > c.rating
    IN /\ c.kind = "CircuitBreaker"
       /\ TimersWithin(<<post>>, MaxTime)
       /\ dwell.total + dt <= MaxTime
       /\ dwell.trip + dt <= MaxTime
       /\ OnNode(n, post)
       /\ Called("update", n, <<dt>>)
       /\ dwell' = IF c.is_tripped
                   THEN [dwell EXCEPT !.total = IF post.is_tripped THEN @ ELSE 0,
                                      !.run = IF post.is_tripped THEN @ ELSE 0,
                                      !.trip = @ + dt]
                   ELSE [dwell EXCEPT !.total = IF over THEN @ + dt ELSE @,
                                      !.run = IF over THEN @ + dt ELSE 0,
                                      !.trip = 0,
                                      !.at_trip = IF post.is_tripped
                                                  THEN held_inputs(c) ELSE @]
       /\ UNCHANGED <<actuator, e170, comm>>

GenericDcComponent_call_set_power_state(n, on) ==
    /\ components[n].kind = "GenericDcComponent"
    /\ OnNode(n, GenericDcComponent_set_power_state(components[n], on))
    /\ Called("set_power_state", n, <<on>>)
    /\ UNCHANGED <<dwell, actuator, e170, comm>>

GenericDcComponent_call_set_load_factor(n, factor) ==
    /\ components[n].kind = "GenericDcComponent"
    /\ OnNode(n, GenericDcComponent_set_load_factor(components[n], factor))
    /\ Called("set_load_factor", n, <<factor>>)
    /\ UNCHANGED <<dwell, actuator, e170, comm>>

GenericDcComponent_call_update(n, dt) ==
    /\ components[n].kind = "GenericDcComponent"
    /\ OnNode(n, update(components[n], dt))
    /\ Called("update", n, <<dt>>)
    /\ UNCHANGED <<dwell, actuator, e170, comm>>

----------------------------------------------------------------------------
(* Operations of the HydraulicActuator *)

ActuatorCalled(op, args, post) ==
    /\ actuator' = post
    /\ last' = [op |-> op, args |-> args, pre |-> actuator]
    /\ UNCHANGED <<node_count, graph_edges, components, node_voltage,
                   edge_current, wire_resistance, update_log, dwell, e170, comm>>

HydraulicActuator_call_set_valve_opening(opening) ==
    ActuatorCalled("set_valve_opening", <<opening>>,
                   HydraulicActuator_set_valve_opening(actuator, Fin(opening)))

HydraulicActuator_call_set_external_force(force) ==
    ActuatorCalled("set_external_force", <<force>>,
                   HydraulicActuator_set_external_force(actuator, Fin(force)))

HydraulicActuator_call_set_supply_pressure(pressure) ==
    ActuatorCalled("set_supply_pressure", <<pressure>>,
                   HydraulicActuator_set_supply_pressure(actuator, Fin(pressure)))

HydraulicActuator_call_update(delta_time) ==
    ActuatorCalled("update", <<delta_time>>,
                   HydraulicActuator_update(actuator, Fin(delta_time)))

----------------------------------------------------------------------------
(* CommunicationBus (communication_bus/mod.rs) *)

MessageID == {"Electrical", "Hydraulic"}

\* the threads that hold CommunicationBus::instance()
Threads == {1, 2}

\* A payload is an Arc<dyn Any>: a value together with the type it was
\* built from.
PayloadTypes == {"u32", "String"}

Payloads ==
    {[type |-> "u32", value |-> 1], [type |-> "u32", value |-> 2],
     [type |-> "String", value |-> 3]}

IdleThread ==
    [pc |-> "idle", op |-> "none", id |-> "none", arg |-> <<>>, at |-> 0,
     ret |-> <<>>]

\* new(): an empty table behind an unlocked Mutex (lock = 0: no holder).
\* sends is the observer: the payloads in the order their sends took the lock.
CommunicationBus_new ==
    [messages |-> <<>>, lock |-> 0, threads |-> [t \in Threads |-> IdleThread],
     sends |-> <<>>]

\* Mutant: a lock that never makes a caller wait.
Mutex_lock_ready_always(c) == TRUE

\* self.messages.lock(): returns once no thread holds the guard
Mutex_lock_ready(c) == c.lock = 0

\* messages.entry(id).or_insert_with(|| Vec::new()).push(Arc::new(message))
CommunicationBus_send(messages, id, message) ==
    Put(messages, id,
        Append(IF id \in DOMAIN messages THEN messages[id] ELSE <<>>, message))

\* Mutant: receive cloning every payload of the category, whatever its type.
CommunicationBus_receive_any_type(messages, id, T) ==
    IF id \in DOMAIN messages
    THEN [i \in 1 .. Len(messages[id]) |-> messages[id][i].value]
    ELSE <<>>

\* receive::<T>(id): of the category's payloads, those that downcast to T,
\* cloned in the order of the Vec; an empty Vec when the table has no entry
CommunicationBus_receive(messages, id, T) ==
    IF id \in DOMAIN messages
    THEN LET IsT(msg) == msg.type = T
             kept == SelectSeq(messages[id], IsT)
         IN [i \in 1 .. Len(kept) |-> kept[i].value]
    ELSE <<>>

OnBus(c) ==
    /\ comm' = c
    /\ UNCHANGED <<node_count, graph_edges, components, node_voltage,
                   edge_current, wire_resistance, update_log, dwell, last,
                   actuator, e170>>

\* send, first line: the caller takes the lock
CommunicationBus_send_lock(t, id, message) ==
    /\ comm.threads[t].pc = "idle"
    /\ Len(comm.sends) < MaxSends
    /\ Mutex_lock_ready(comm)
    /\ OnBus([comm EXCEPT
                 !.lock = t,
                 !.sends = Append(@, [id |-> id, message |-> message]),
                 !.threads[t] = [pc |-> "send_locked", op |-> "send", id |-> id,
                                 arg |-> message, at |-> Len(comm.sends),
                                 ret |-> <<>>]])

\* send, second line: the push
CommunicationBus_send_push(t) ==
    LET th == comm.threads[t]
    IN /\ th.pc = "send_locked"
       /\ OnBus([comm EXCEPT
                    !.messages = CommunicationBus_send(@, th.id, th.arg),
                    !.threads[t].pc = "done"])

\* receive, first line: the caller takes the lock
CommunicationBus_receive_lock(t, id, T) ==
    /\ comm.threads[t].pc = "idle"
    /\ Mutex_lock_ready(comm)
    /\ OnBus([comm EXCEPT
                 !.lock = t,
                 !.threads[t] = [pc |-> "receive_locked", op |-> "receive",
                                 id |-> id, arg |-> T, at |-> Len(comm.sends),
                                 ret |-> <<>>]])

\* receive, the collect
CommunicationBus_receive_collect(t) ==
    LET th == comm.threads[t]
    IN /\ th.pc = "receive_locked"
       /\ OnBus([comm EXCEPT
                    !.threads[t].ret = CommunicationBus_receive(comm.messages, th.id, th.arg),
                    !.threads[t].pc = "done"])

\* the guard is dropped as the function returns
MutexGuard_drop(t) ==
    /\ comm.threads[t].pc = "done"
    /\ OnBus([comm EXCEPT !.lock = 0, !.threads[t].pc = "idle"])

----------------------------------------------------------------------------
(* Spec: a network under construction and ticking *)

Init ==
    /\ node_count = 0
    /\ graph_edges = <<>>
    /\ components = <<>>
    /\ node_voltage = <<>>
    /\ edge_current = <<>>
    /\ wire_resistance = <<>>
    /\ update_log = <<>>
    /\ dwell = NoDwell
    /\ last = [op |-> "new"]
    /\ actuator = NoActuator
    /\ e170 = NoE170
    /\ comm = CommunicationBus_new

Next ==
    \/ \E c \in NetComponents : add_component(c)
    \/ \E from, to \in IssuedHandles \cup ForeignHandles, r \in Resistances :
           connect_with_wire(from, to, r)
    \/ \E from, to \in IssuedHandles : connect_no_resistance(from, to)
    \/ \E dt \in NetDts : update_system(dt)

Spec == Init /\ [][Next]_vars

----------------------------------------------------------------------------
(* SpecGraph: networks of buses, for the order of a tick alone *)

NextGraph ==
    \/ add_component(MainBus)
    \/ \E from, to \in IssuedHandles : connect_with_wire(from, to, 20)
    \/ \E dt \in NetDts : update_system(dt)

SpecGraph == Init /\ [][NextGraph]_vars

----------------------------------------------------------------------------
(* SpecQuery: a network of buses and breakers, ticked and read back *)

\* a NodeIndex of every index a caller can build, in the graph or not
AnyHandles == [net : {"this"}, ix : 0 .. (MaxNodes - 1)]

\* buses and breakers alternate along the feed, and every wire runs from a
\* node to the next one, as in the network E170Systems::new builds.
\* A read changes nothing, so a read that follows a read is the same read
\* made on the state before it.
NextQuery ==
    \/ add_component(IF node_count % 2 = 0 THEN MainBus ELSE LightsCb)
    \/ \E from, to \in IssuedHandles :
           from.ix + 1 = to.ix /\ connect_with_wire(from, to, 20)
    \/ update_system(100)
    \/ /\ last.op \notin {"get_current", "downcast_ref"}
       /\ \/ \E from, to \in AnyHandles : call_get_current(from, to)
          \/ \E n \in Nodes, T \in ComponentKinds : call_downcast_ref(n, T)

SpecQuery == Init /\ [][NextQuery]_vars

----------------------------------------------------------------------------
(* SpecComm: two threads on the CommunicationBus *)

NextComm ==
    \/ \E t \in Threads, id \in MessageID, message \in Payloads :
           CommunicationBus_send_lock(t, id, message)
    \/ \E t \in Threads : CommunicationBus_send_push(t)
    \/ \E t \in Threads, id \in MessageID, T \in PayloadTypes :
           CommunicationBus_receive_lock(t, id, T)
    \/ \E t \in Threads : CommunicationBus_receive_collect(t)
    \/ \E t \in Threads : MutexGuard_drop(t)

SpecComm == Init /\ [][NextComm]_vars

----------------------------------------------------------------------------
(* SpecGen: one Generator, called directly *)

\* spin_up_time of the generator under test, in milliseconds
SpinUpTimes == {0, 4, 4000}

\* set_mechanical_input(power, rpm)
MechanicalPowers == {0, 920, 80000}

DriveSpeeds == {6000, 12000}

GenDts == {0, 1, 2}

InitGen ==
    /\ node_count = 1
    /\ graph_edges = <<>>
    /\ \E t \in SpinUpTimes :
           components = [n \in {0} |-> Generator_new(2, 90000, 115, 400, 95, 50, t, 3)]
    /\ node_voltage = <<>>
    /\ edge_current = <<>>
    /\ wire_resistance = <<>>
    /\ update_log = <<>>
    /\ dwell = NoDwell
    /\ last = [op |-> "new"]
    /\ actuator = NoActuator
    /\ e170 = NoE170
    /\ comm = CommunicationBus_new

NextGen ==
    \/ Generator_call_turn_on(0)
    \/ Generator_call_turn_off(0)
    \/ \E p \in MechanicalPowers, r \in DriveSpeeds :
           Generator_call_set_mechanical_input(0, p, r)
    \/ \E dt \in GenDts : Generator_call_update(0, dt)
    \/ \E v \in {28} : call_set_input_voltage(0, v)
    \/ \E p \in {100} : call_set_input_power(0, p)
    \/ \E i \in {30} : call_set_input_current(0, i)

SpecGen == InitGen /\ [][NextGen]_vars

----------------------------------------------------------------------------
(* SpecCB: one CircuitBreaker, called directly *)

\* delays in milliseconds (ShortDelay(0.2) is ShortDelay(200))
TripCurves ==
    {Instantaneous, ShortDelay(0), ShortDelay(200), LongDelay(300), InverseTime}

\* (auto_reset, reset_delay)
ResetModes == {<<FALSE, 0>>, <<TRUE, 200>>}

BreakerRating == 15

BreakerCurrents == {0, 15, 16, 30}

BreakerDts == {0, 100}

InitCB ==
    /\ node_count = 1
    /\ graph_edges = <<>>
    /\ \E tc \in TripCurves, rm \in ResetModes :
           components = [n \in {0} |->
                            CircuitBreaker_new(BreakerRating, tc, rm[1], rm[2])]
    /\ node_voltage = <<>>
    /\ edge_current = <<>>
    /\ wire_resistance = <<>>
    /\ update_log = <<>>
    /\ dwell = NoDwell
    /\ last = [op |-> "new"]
    /\ actuator = NoActuator
    /\ e170 = NoE170
    /\ comm = CommunicationBus_new

NextCB ==
    \/ \E dt \in BreakerDts : CircuitBreaker_call_update(0, dt)
    \/ CircuitBreaker_call_reset(0)
    \/ \E v \in {0, 28} : call_set_input_voltage(0, v)
    \/ \E p \in {0, 100} : call_set_input_power(0, p)
    \/ \E i \in BreakerCurrents : call_set_input_current(0, i)

SpecCB == InitCB /\ [][NextCB]_vars

----------------------------------------------------------------------------
(* SpecParts: a load and a generator built from arbitrary arguments *)

VoltageResponses == {"Linear", "Binary", "Regulated", "Proportional"}

\* power_factor and efficiency arguments, in hundredths (1.3 is 130)
PowerFactors == {-20, 90, 130}

Efficiencies == {-50, 95, 150}

LoadFactors == {-50, 0, 50, 100, 150}

LoadVoltages == {0, 19, 20, 24, 28, 33}

\* nominal voltage of the load under test, inside its operating band
\* min_voltage .. max_voltage (20 .. 32) and as low as its lower end
NominalVoltages == {20, 28}

InitParts ==
    /\ node_count = 2
    /\ graph_edges = <<>>
    /\ \E r \in VoltageResponses, pf \in PowerFactors, e \in Efficiencies,
          nominal \in NominalVoltages :
           components = [n \in {0, 1} |->
                            IF n = 0
                            THEN GenericDcComponent_new(nominal, 200, 20, 32, r, pf)
                            ELSE Generator_new(2, 90000, 115, 400, e, 50, 0, 3)]
    /\ node_voltage = <<>>
    /\ edge_current = <<>>
    /\ wire_resistance = <<>>
    /\ update_log = <<>>
    /\ dwell = NoDwell
    /\ last = [op |-> "new"]
    /\ actuator = NoActuator
    /\ e170 = NoE170
    /\ comm = CommunicationBus_new

NextParts ==
    \/ \E on \in BOOLEAN : GenericDcComponent_call_set_power_state(0, on)
    \/ \E f \in LoadFactors : GenericDcComponent_call_set_load_factor(0, f)
    \/ \E v \in LoadVoltages : call_set_input_voltage(0, v)
    \/ \E dt \in NetDts : GenericDcComponent_call_update(0, dt)
    \/ Generator_call_turn_on(1)

SpecParts == InitParts /\ [][NextParts]_vars

----------------------------------------------------------------------------
(* SpecE170: the network and the orchestrator of E170Systems *)

MainGenerator == Generator_new(2, 90000, 115, 400, 95, 50, 0, 3)

AvionicsCb == CircuitBreaker_new(15, ShortDelay(200), FALSE, 0)

E170LightsCb == CircuitBreaker_new(10, ShortDelay(100), TRUE, 5000)

TestDisplay == GenericDcComponent_new(28, 120, 21, 32, "Regulated", 85)

\* nodes in the order E170Systems::new adds them
E170Components ==
    <<MainGenerator, MainBus, AvionicsCb, E170LightsCb, TestDisplay, TestLight>>

\* edges in the order E170Systems::new connects them, with their resistance
E170Wires == <<<<0, 1, 1>>, <<1, 2, 1>>, <<1, 3, 1>>, <<2, 4, 10>>, <<3, 5, 20>>>>

generator_node == 0

test_display_node == 4

test_light_node == 5

E170Edges == [i \in 1 .. Len(E170Wires) |-> <<E170Wires[i][1], E170Wires[i][2]>>]

E170EdgeSet == {E170Edges[i] : i \in 1 .. Len(E170Edges)}

InitE170 ==
    /\ node_count = Len(E170Components)
    /\ graph_edges = E170Edges
    /\ components = [n \in 0 .. (Len(E170Components) - 1) |-> E170Components[n + 1]]
    /\ node_voltage = <<>>
    /\ edge_current = [e \in E170EdgeSet |-> 0]
    /\ wire_resistance =
           [e \in E170EdgeSet |->
               LET i == CHOOSE j \in 1 .. Len(E170Wires) : E170Edges[j] = e
               IN E170Wires[i][3]]
    /\ update_log = <<>>
    /\ dwell = NoDwell
    /\ last = [op |-> "new"]
    /\ actuator = NoActuator
    /\ e170 = [elapsed_time |-> 0, generator_on |-> FALSE, turn_on_calls |-> 0]
    /\ comm = CommunicationBus_new

\* Mutant: the command test of update without the generator_on flag.
E170Systems_generator_due_always(e, elapsed_time) == elapsed_time > 3

\* !self.generator_on && self.elapsed_time > 3.0
E170Systems_generator_due(e, elapsed_time) == ~e.generator_on /\ elapsed_time > 3

\* E170Systems::update(dt): the generator is commanded on once elapsed_time
\* exceeds 3.0, then the network ticks; check_overcurrent(20.0) is only
\* printed.
E170Systems_update(dt) ==
    LET elapsed_time == e170.elapsed_time + dt
        command == E170Systems_generator_due(e170, elapsed_time)
                   /\ components[generator_node].kind = "Generator"
        commanded ==
            IF command
            THEN [components EXCEPT ![generator_node] =
                     Generator_set_mechanical_input(
                         Generator_turn_on(components[generator_node]), 80000, 6000)]
            ELSE components
        r == update_system_on(commanded, node_voltage, edge_current, dt)
    IN /\ elapsed_time <= MaxTime
       /\ TimersWithin(r.comps, MaxTime)
       /\ e170' = [elapsed_time |-> elapsed_time,
                   generator_on |-> e170.generator_on \/ command,
                   turn_on_calls |-> e170.turn_on_calls + (IF command THEN 1 ELSE 0)]
       /\ components' = r.comps
       /\ node_voltage' = r.nv
       /\ edge_current' = r.ec
       /\ update_log' = r.log
       /\ last' = [op |-> "E170Systems_update", ret |-> "returned",
                   commanded |-> command,
                   overcurrents |-> check_overcurrent(r.ec, 20)]
       /\ UNCHANGED <<node_count, graph_edges, wire_resistance, dwell, actuator,
                      comm>>

E170Dts == {0, 100}

\* set_mechanical_input(power, rpm) of a caller other than the orchestrator
E170MechanicalInputs == {<<460, 12000>>}

E170LoadFactors == {50, 100}

NextE170 ==
    \/ \E dt \in E170Dts : E170Systems_update(dt)
    \/ \E dt \in E170Dts : update_system(dt)
    \/ \E m \in E170MechanicalInputs :
           Generator_call_set_mechanical_input(generator_node, m[1], m[2])
    \/ \E n \in {test_display_node, test_light_node}, on \in BOOLEAN :
           GenericDcComponent_call_set_power_state(n, on)
    \/ \E f \in E170LoadFactors :
           GenericDcComponent_call_set_load_factor(test_light_node, f)

SpecE170 == InitE170 /\ [][NextE170]_vars

----------------------------------------------------------------------------
(* SpecReset: a bus feeding a breaker and its load, with an operator at the breaker *)

\* the components in the order they are added: node 0, node 1, node 2
ResetComponents == <<MainBus, LightsCb, TestLight>>

NextReset ==
    \/ /\ node_count < Len(ResetComponents)
       /\ add_component(ResetComponents[node_count + 1])
    \/ \E from, to \in IssuedHandles, r \in Resistances :
           from.ix + 1 = to.ix /\ connect_with_wire(from, to, r)
    \/ \E dt \in NetDts : update_system(dt)
    \/ \E n \in Nodes : CircuitBreaker_call_reset(n)

SpecReset == Init /\ [][NextReset]_vars

----------------------------------------------------------------------------
(* SpecOnce: the orchestrator alone, ticked up to and past its threshold *)

OnceDts == {0, 3, 100}

NextOnce == \E dt \in OnceDts : E170Systems_update(dt)

SpecOnce == InitE170 /\ [][NextOnce]_vars

----------------------------------------------------------------------------
(* SpecOver: the E170Systems network ticking and scanned for overcurrent *)

\* check_overcurrent limits, in ampere (E170Systems::update scans at 20.0)
OvercurrentLimits == {0, 20, 5800, 28000}

NextOver ==
    \/ \E dt \in E170Dts : E170Systems_update(dt)
    \/ \E dt \in E170Dts : update_system(dt)
    \/ \E m \in E170MechanicalInputs :
           Generator_call_set_mechanical_input(generator_node, m[1], m[2])
    \/ \E limit \in OvercurrentLimits : call_check_overcurrent(limit)

SpecOver == InitE170 /\ [][NextOver]_vars

----------------------------------------------------------------------------
(* SpecHyd: one HydraulicActuator, called directly *)

LeakageCoefficients == {0, 1}

\* set_valve_opening arguments, in hundredths
ValveOpenings == {-50, 0, 50, 150}

SupplyPressures == {0, 3000}

ExternalForces == {-10, 0, 10}

ActuatorDts == {0, 10}

InitHyd ==
    /\ node_count = 0
    /\ graph_edges = <<>>
    /\ components = <<>>
    /\ node_voltage = <<>>
    /\ edge_current = <<>>
    /\ wire_resistance = <<>>
    /\ update_log = <<>>
    /\ dwell = NoDwell
    /\ last = [op |-> "new"]
    /\ \E il, el \in LeakageCoefficients :
           actuator = HydraulicActuator_new(Fin(50), Fin(20), Fin(100), Fin(1), Fin(1), Fin(1), Fin(10), Fin(5), Fin(1), Fin(il), Fin(el))
    /\ e170 = NoE170
    /\ comm = CommunicationBus_new

NextHyd ==
    \/ \E o \in ValveOpenings : HydraulicActuator_call_set_valve_opening(o)
    \/ \E f \in ExternalForces : HydraulicActuator_call_set_external_force(f)
    \/ \E p \in SupplyPressures : HydraulicActuator_call_set_supply_pressure(p)
    \/ \E dt \in ActuatorDts : HydraulicActuator_call_update(dt)

SpecHyd == InitHyd /\ [][NextHyd]_vars

----------------------------------------------------------------------------
(* Properties of the network *)

HasEdge(a, b) == \E i \in 1 .. Len(graph_edges) : graph_edges[i] = <<a, b>>

RECURSIVE PathWithin(_, _, _)

PathWithin(a, b, k) ==
    /\ k > 0
    /\ \/ HasEdge(a, b)
       \/ \E m \in Nodes : HasEdge(a, m) /\ PathWithin(m, b, k - 1)

\* a is an ancestor of b: a path of edges leads from a to b
Ancestor(a, b) == PathWithin(a, b, node_count)

Acyclic == \A n \in Nodes : ~Ancestor(n, n)

Updated(n) == \E i \in 1 .. Len(update_log) : update_log[i] = n

\* C1: one update_system call on an acyclic network updates every node
\* exactly once, and every node after all of its ancestors.
C1_UpdateOrder ==
    (last.op = "update_system" /\ Acyclic) =>
        /\ Len(update_log) = node_count
        /\ \A n \in Nodes :
               Cardinality({i \in 1 .. Len(update_log) : update_log[i] = n}) = 1
        /\ \A a, b \in Nodes :
               Ancestor(a, b) =>
                   Position(update_log, a) < Position(update_log, b)

\* a tick of an acyclic three-node chain that runs against the index order
C1_Witness ==
    /\ last.op = "update_system"
    /\ Acyclic
    /\ node_count = 3
    /\ \E a, b \in Nodes : a > b /\ Ancestor(a, b) /\ ~HasEdge(a, b)

\* the voltage the last update_system call left for node n: the snapshot
\* taken after n's update, or n's output as it stands when the call
\* updated nothing
TickVoltage(n) ==
    IF Updated(n) THEN node_voltage[n] ELSE get_output_voltage(components[n])

\* C2: after an update_system call every edge's cached current is the
\* difference of the voltages of that call at its two ends, divided by the
\* wire resistance, and 0 when the resistance is <= 0.
C2_EdgeCurrent ==
    last.op = "update_system" =>
        \A i \in 1 .. Len(graph_edges) :
            LET e == graph_edges[i]
            IN edge_current[e] =
                   IF wire_resistance[e] > 0
                   THEN Quot((TickVoltage(e[1]) - TickVoltage(e[2])) * 1000,
                             wire_resistance[e])
                   ELSE 0

\* The same equation on the calls that did tick, which holds.
EdgeCurrentWhenTicked ==
    (last.op = "update_system" /\ Acyclic) => C2_EdgeCurrent

\* C3: update_system never returns normally without having updated the
\* components: on a cyclic graph it fails, or no cyclic graph can be built.
C3_CycleReported ==
    (last.op = "update_system" /\ last.ret = "returned") =>
        \A n \in Nodes : Updated(n)

\* Every edge of the graph and every key of the two edge maps joins nodes
\* of the network.
EdgesJoinNodes ==
    /\ \A i \in 1 .. Len(graph_edges) :
           graph_edges[i][1] \in Nodes /\ graph_edges[i][2] \in Nodes
    /\ DOMAIN edge_current \subseteq Nodes \X Nodes
    /\ DOMAIN wire_resistance \subseteq Nodes \X Nodes

\* C4: a connect_with_wire with a handle this network did not issue fails
\* and leaves the network as it was, so every edge joins nodes of the
\* network.
C4_ForeignHandleRejected ==
    /\ (last.op = "connect_with_wire" /\ last.foreign) =>
           /\ last.ret # "returned"
           /\ Len(graph_edges) = last.edges_before
    /\ EdgesJoinNodes

----------------------------------------------------------------------------
(* Properties of the Generator *)

IsCall(op, kind) ==
    /\ last.op = op
    /\ "pre" \in DOMAIN last
    /\ last.pre.kind = kind

\* C5: after every update of a generator that is off, its output voltage,
\* output power, output current and current speed are all zero.
C5_OffIsZero ==
    \A n \in Nodes :
        (IsCall("update", "Generator") /\ last.node = n /\ ~components[n].is_on) =>
            /\ get_output_voltage(components[n]) = 0
            /\ get_output_power(components[n]) = 0
            /\ get_output_current(components[n]) = 0
            /\ components[n].current_rpm = 0

\* an update of a generator that ran with mechanical input and was turned off
C5_Witness ==
    /\ IsCall("update", "Generator")
    /\ ~components[last.node].is_on
    /\ components[last.node].mechanical_input_power > 0
    /\ last.args[1] > 0

\* C6: with spin_up_time T > 0, after an update with accumulated on-time
\* t < T the current speed is drive speed * t / T, and the current speed
\* equals a non-zero drive speed only when t >= T.
C6_SpinUp ==
    \A n \in Nodes :
        (/\ IsCall("update", "Generator")
         /\ last.node = n
         /\ components[n].is_on
         /\ components[n].spin_up_time > 0) =>
            LET g == components[n]
            IN /\ g.time_on < g.spin_up_time =>
                      g.current_rpm * g.spin_up_time = g.rpm * g.time_on
               /\ (g.rpm > 0 /\ g.current_rpm = g.rpm) =>
                      g.time_on >= g.spin_up_time

----------------------------------------------------------------------------
(* Properties of the CircuitBreaker *)

Delayed(c) == c.trip_curve.curve \in {"ShortDelay", "LongDelay"}

\* C7: an update of a Closed breaker with the Instantaneous curve leaves it
\* Tripped when its input current is above its rating and Closed when it is
\* not, whatever dt is.
C7_Instantaneous ==
    \A n \in Nodes :
        (/\ IsCall("update", "CircuitBreaker")
         /\ last.node = n
         /\ last.pre.trip_curve.curve = "Instantaneous"
         /\ ~last.pre.is_tripped) =>
            (components[n].is_tripped <=> last.pre.input_current > last.pre.rating)

\* an Instantaneous breaker tripped by an update with dt = 0
C7_Witness ==
    /\ IsCall("update", "CircuitBreaker")
    /\ last.pre.trip_curve.curve = "Instantaneous"
    /\ ~last.pre.is_tripped
    /\ components[last.node].is_tripped
    /\ last.args[1] = 0

\* C8 as stated: a delayed breaker stays Closed on every update while the
\* summed dt of its overcurrent updates is below the delay and is Tripped
\* by the update at which that sum reaches the delay.
C8_SummedDwell ==
    \A n \in Nodes :
        (/\ IsCall("update", "CircuitBreaker")
         /\ last.node = n
         /\ Delayed(last.pre)
         /\ ~last.pre.is_tripped) =>
            /\ dwell.total < last.pre.trip_curve.delay => ~components[n].is_tripped
            /\ dwell.total >= last.pre.trip_curve.delay => components[n].is_tripped

\* C8 amended: the dwell is that of the present unbroken run of overcurrent
\* updates.  The breaker stays Closed while it is below the delay and is
\* Tripped by the overcurrent update at which it reaches the delay.
C8_RunDwell ==
    \A n \in Nodes :
        (/\ IsCall("update", "CircuitBreaker")
         /\ last.node = n
         /\ Delayed(last.pre)
         /\ ~last.pre.is_tripped) =>
            /\ dwell.run < last.pre.trip_curve.delay => ~components[n].is_tripped
            /\ (/\ last.pre.input_current > last.pre.rating
                /\ dwell.run >= last.pre.trip_curve.delay) =>
                   components[n].is_tripped

\* a delayed breaker tripped by an update although an earlier overcurrent
\* run was broken off before the delay
C8_Witness ==
    /\ IsCall("update", "CircuitBreaker")
    /\ Delayed(last.pre)
    /\ ~last.pre.is_tripped
    /\ components[last.node].is_tripped
    /\ dwell.total > dwell.run

\* C9: a Tripped breaker without auto_reset is still Tripped after every
\* update and every set_input call; reset() leaves it Closed.
C9_StaysTripped ==
    \A n \in Nodes :
        (/\ "pre" \in DOMAIN last
         /\ last.node = n
         /\ last.pre.kind = "CircuitBreaker"
         /\ last.pre.is_tripped
         /\ ~last.pre.auto_reset) =>
            (components[n].is_tripped <=> last.op # "reset")

\* a Tripped breaker without auto_reset after an update with dt > 0
C9_Witness ==
    /\ IsCall("update", "CircuitBreaker")
    /\ last.pre.is_tripped
    /\ ~last.pre.auto_reset
    /\ last.args[1] > 0
    /\ components[last.node].is_tripped

\* C10: a Tripped breaker's output voltage, power and current are zero.
C10_TrippedOutputsZero ==
    \A n \in Nodes :
        (components[n].kind = "CircuitBreaker" /\ components[n].is_tripped) =>
            /\ get_output_voltage(components[n]) = 0
            /\ get_output_power(components[n]) = 0
            /\ get_output_current(components[n]) = 0

\* a Tripped breaker whose three inputs were written non-zero
C10_Witness ==
    \E n \in Nodes :
        /\ components[n].kind = "CircuitBreaker"
        /\ components[n].is_tripped
        /\ components[n].input_voltage > 0
        /\ components[n].input_power > 0
        /\ components[n].input_current > 0

----------------------------------------------------------------------------
(* Properties of the GenericDcComponent *)

\* C11: a load with the Binary response consumes 0 when its input voltage
\* is below its minimum voltage or it is off, and exactly nominal power *
\* load_factor * power_factor when its input voltage is at or above the
\* minimum and it is on.
C11_BinaryStep ==
    \A n \in Nodes :
        (/\ components[n].kind = "GenericDcComponent"
         /\ components[n].voltage_response = "Binary") =>
            LET c == components[n]
                p == GenericDcComponent_get_actual_power(c)
            IN /\ (c.input_voltage < c.min_voltage \/ ~c.is_on) => p = 0
               /\ (c.input_voltage >= c.min_voltage /\ c.is_on) =>
                      p * 10000 = c.nominal_power * c.load_factor * c.power_factor

\* a Binary load, on and dimmed, between its minimum and nominal voltage
C11_Witness ==
    \E n \in Nodes :
        /\ components[n].kind = "GenericDcComponent"
        /\ components[n].voltage_response = "Binary"
        /\ components[n].is_on
        /\ components[n].input_voltage > components[n].min_voltage
        /\ components[n].input_voltage < components[n].nominal_voltage
        /\ components[n].load_factor = 50
        /\ GenericDcComponent_get_actual_power(components[n]) = 90

----------------------------------------------------------------------------
(* Properties of the HydraulicActuator *)

AtRest(a) ==
    /\ a.valve_opening = Fin(0)
    /\ a.external_force = Fin(0)
    /\ a.cap_end_pressure = Fin(0)
    /\ a.rod_end_pressure = Fin(0)
    /\ a.current_position = Fin(0)
    /\ a.current_velocity = Fin(0)

\* C12: an update of an actuator at rest as constructed (valve closed, no
\* external force, no supply pressure) leaves its position, its velocity
\* and its chamber pressures at their initial values.
C12_RestStays ==
    (last.op = "update" /\ AtRest(last.pre)) =>
        /\ actuator.current_position = last.pre.current_position
        /\ actuator.current_velocity = last.pre.current_velocity
        /\ actuator.cap_end_pressure = last.pre.cap_end_pressure
        /\ actuator.rod_end_pressure = last.pre.rod_end_pressure

\* C13: after an update under positive commanded flow, either the position
\* is still below stroke_length and the upper end stop has zeroed nothing,
\* or the position is exactly stroke_length with velocity and acceleration
\* zero.
C13_EndStop ==
    (last.op = "update" /\ FLt(Fin(0), last.pre.valve_opening)) =>
        LET d == HydraulicActuator_dynamics(last.pre, Fin(last.args[1]))
        IN \/ /\ FLt(actuator.current_position, actuator.stroke_length)
              /\ \/ FLe(actuator.current_position, Fin(0))
                 \/ /\ actuator.current_velocity = d.velocity
                    /\ actuator.current_acceleration = d.acceleration
           \/ /\ actuator.current_position = actuator.stroke_length
              /\ actuator.current_velocity = Fin(0)
              /\ actuator.current_acceleration = Fin(0)

ValveOpeningInRange ==
    FLe(Fin(0), actuator.valve_opening) /\ FLe(actuator.valve_opening, Fin(100))

PositionInRange ==
    /\ FLe(Fin(0), actuator.current_position)
    /\ FLe(actuator.current_position, actuator.stroke_length)

\* C17: in every state of the actuator, valve_opening is within [0, 1] and
\* position is within [0, stroke_length].
C17_Ranges == ValveOpeningInRange /\ PositionInRange

----------------------------------------------------------------------------
(* Properties of the E170Systems network *)

Ticked == last.op \in {"update_system", "E170Systems_update"}

Breakers == {n \in Nodes : components[n].kind = "CircuitBreaker"}

\* C14: in the E170Systems network, after every tick made while the
\* generator is off, every breaker reports 0 A: its input current and its
\* output current are 0.
C14_OffNoCurrent ==
    (Ticked /\ ~components[generator_node].is_on) =>
        \A n \in Breakers :
            /\ components[n].input_current = 0
            /\ get_output_current(components[n]) = 0

\* the bus that feeds breaker n, and the load that breaker n feeds
FeedingBus(n) == CHOOSE b \in Nodes : HasEdge(b, n) /\ components[b].kind = "Bus"

FedLoad(n) ==
    CHOOSE l \in Nodes : HasEdge(n, l) /\ components[l].kind = "GenericDcComponent"

SpunUp(g) == g.is_on /\ g.current_rpm = g.rpm

\* C15: in the E170Systems network, after every tick with the generator on
\* and spun up, the current latched by each breaker is its load's actual
\* power divided by the bus voltage (0 A when the bus has no voltage).
C15_LoadCurrent ==
    (Ticked /\ SpunUp(components[generator_node])) =>
        \A n \in Breakers :
            LET bus_voltage == get_output_voltage(components[FeedingBus(n)])
                actual_power == GenericDcComponent_get_actual_power(components[FedLoad(n)])
            IN IF bus_voltage > 0
               THEN components[n].input_current * bus_voltage = actual_power
               ELSE components[n].input_current = 0

\* C15, its last clause alone: a breaker whose load consumes power conducts
\* a current.
C15_ConsumingLoadDraws ==
    (Ticked /\ SpunUp(components[generator_node])) =>
        \A n \in Breakers :
            GenericDcComponent_get_actual_power(components[FedLoad(n)]) > 0 =>
                components[n].input_current # 0

----------------------------------------------------------------------------
(* Properties of a tick of no duration *)

\* C16: an update with dt = 0 of a component called directly leaves the
\* component as it was: its flags, timers, inputs and outputs are unchanged.
C16_ZeroTickChangesNothing ==
    \A n \in Nodes :
        (/\ last.op = "update"
         /\ "pre" \in DOMAIN last
         /\ last.node = n
         /\ last.args[1] = 0) =>
            components[n] = last.pre

----------------------------------------------------------------------------
(* Properties of the ratio fields *)

LoadRatiosInRange ==
    \A n \in Nodes :
        components[n].kind = "GenericDcComponent" =>
            /\ components[n].power_factor >= 0 /\ components[n].power_factor <= 100
            /\ components[n].load_factor >= 0 /\ components[n].load_factor <= 100

\* the stored efficiency is within [0, 100] percent
EfficiencyInRange ==
    \A n \in Nodes :
        components[n].kind = "Generator" =>
            components[n].efficiency >= 0 /\ components[n].efficiency <= 100

\* C18: whatever the constructor and setter arguments, a load's
\* power_factor and load_factor are within [0, 1] and a generator's stored
\* efficiency is within [0, 100] percent.
C18_RatiosClamped == LoadRatiosInRange /\ EfficiencyInRange

----------------------------------------------------------------------------
(* Properties of check_overcurrent *)

\* C19: check_overcurrent(limit) returns the edges whose cached current is
\* above limit and no other, each as (from, to, its cached current), and
\* leaves the components and the edge currents as they were.
C19_OvercurrentReport ==
    last.op = "check_overcurrent" =>
        /\ \A i \in 1 .. Len(graph_edges) :
               LET e == graph_edges[i]
               IN (<<e[1], e[2], edge_current[e]>> \in last.ret)
                      <=> (edge_current[e] > last.args[1])
        /\ \A r \in last.ret :
               HasEdge(r[1], r[2]) /\ r[3] = edge_current[<<r[1], r[2]>>]
        /\ components = last.before.components
        /\ edge_current = last.before.edge_current

\* a scan at a limit that one edge's current equals, another's exceeds and
\* a third's stays below
C19_Witness ==
    /\ last.op = "check_overcurrent"
    /\ last.ret # {}
    /\ \E i, j \in 1 .. Len(graph_edges) :
           /\ edge_current[graph_edges[i]] = last.args[1]
           /\ edge_current[graph_edges[j]] < last.args[1]

----------------------------------------------------------------------------
(* Properties of the edges *)

\* C20: the graph holds at most one edge per ordered pair (from, to),
\* whatever connect_with_wire and connect_no_resistance calls were made.
C20_OneEdgePerPair ==
    \A i, j \in 1 .. Len(graph_edges) :
        graph_edges[i] = graph_edges[j] => i = j

\* The two edge maps hold one entry per connected ordered pair.
EdgeMapsKeyedByPair ==
    /\ DOMAIN edge_current = {graph_edges[i] : i \in 1 .. Len(graph_edges)}
    /\ DOMAIN wire_resistance = DOMAIN edge_current

----------------------------------------------------------------------------
(* C21: reads that have nothing to return *)

\* C21: get_current(from, to) answers None exactly for the ordered pairs no
\* connect call has joined, and the cached current of the pair otherwise;
\* downcast_ref to a type answers Some exactly when the node's component is
\* of that type, and then hands back that component.
C21_AbsentIsNone ==
    /\ last.op = "get_current" =>
           LET from == last.args[1].ix
               to == last.args[2].ix
           IN /\ last.ret.some <=> HasEdge(from, to)
              /\ last.ret.some => last.ret.value = edge_current[<<from, to>>]
    /\ last.op = "downcast_ref" =>
           /\ last.ret.some <=> components[last.node].kind = last.args[1]
           /\ last.ret.some => last.ret.value = components[last.node]

\* the reverse of a wire that carries current was asked for, and None came back
C21_Witness ==
    /\ last.op = "get_current"
    /\ ~last.ret.some
    /\ HasEdge(last.args[2].ix, last.args[1].ix)
    /\ edge_current[<<last.args[2].ix, last.args[1].ix>>] # 0

----------------------------------------------------------------------------
(* C22: the inputs a node's update works on *)

\* C22: when update_system has returned, every node that has a predecessor
\* ran its update(dt) on the input voltage, power and current that this
\* same call pushed onto it, that is, on the inputs it holds at the return.
C22_SameTickInputs ==
    (last.op = "update_system" /\ update_log # <<>>) =>
        \A n \in Nodes :
            (\E p \in Nodes : HasEdge(p, n)) =>
                last.held[n] = held_inputs(components[n])

----------------------------------------------------------------------------
(* C23, C24: the CommunicationBus *)

\* the payloads sent under id by the first k sends that took the lock
SentBefore(id, k) ==
    LET Under(s) == s.id = id
        under == SelectSeq(SubSeq(comm.sends, 1, k), Under)
    IN [i \in 1 .. Len(under) |-> under[i].message]

\* the values of the payloads of type T, in order
ValuesOfType(q, T) ==
    LET IsT(msg) == msg.type = T
        kept == SelectSeq(q, IsT)
    IN [i \in 1 .. Len(kept) |-> kept[i].value]

Stored(id) == IF id \in DOMAIN comm.messages THEN comm.messages[id] ELSE <<>>

\* C23: when receive::<T>(category) has collected its answer, the answer is
\* the values of the payloads of type T sent under that category, in the
\* order of the sends (payloads of other types and other categories are
\* skipped, a category never sent to gives the empty list), and the table
\* still holds every payload sent under the category.
C23_ReceiveFilters ==
    \A t \in Threads :
        LET th == comm.threads[t]
        IN (th.op = "receive" /\ th.pc = "done") =>
               /\ th.ret = ValuesOfType(SentBefore(th.id, Len(comm.sends)), th.arg)
               /\ Stored(th.id) = SentBefore(th.id, Len(comm.sends))

\* a receive answered two values in send order and skipped a third payload
\* of another type stored under the same category
C23_Witness ==
    \E t \in Threads :
        LET th == comm.threads[t]
        IN /\ th.op = "receive" /\ th.pc = "done"
           /\ th.ret = <<2, 1>>
           /\ Len(Stored(th.id)) = 3

InCall(t) == comm.threads[t].pc \in {"send_locked", "receive_locked", "done"}

\* the sends that took the lock and have not pushed yet
Pending(id) ==
    {t \in Threads : comm.threads[t].pc = "send_locked" /\ comm.threads[t].id = id}

\* C24: with several threads calling, at most one call is past the lock at
\* a time; every category's list is the payloads sent under it in the order
\* their sends took the lock, none lost (only the send that holds the lock
\* and has not pushed yet is missing); and every receive answered with the
\* payloads of the sends that took the lock before it did.
C24_Serialized ==
    /\ Cardinality({t \in Threads : InCall(t)}) <= 1
    /\ \A id \in MessageID :
           IF Pending(id) = {}
           THEN Stored(id) = SentBefore(id, Len(comm.sends))
           ELSE Stored(id) = SentBefore(id, Len(comm.sends) - 1)
    /\ \A t \in Threads :
           LET th == comm.threads[t]
           IN (th.op = "receive" /\ th.pc \in {"done", "idle"}) =>
                  th.ret = ValuesOfType(SentBefore(th.id, th.at), th.arg)

\* one thread's receive has answered and a later send of the other thread,
\* which that answer does not hold, has the lock
C24_Witness ==
    \E t, u \in Threads :
        LET th == comm.threads[t]
            uh == comm.threads[u]
        IN /\ t # u
           /\ th.op = "receive" /\ th.pc = "idle" /\ th.ret # <<>>
           /\ uh.pc = "send_locked" /\ uh.id = th.id /\ uh.arg.type = th.arg
           /\ th.at < uh.at

----------------------------------------------------------------------------
(* C25, C26, C27: the breaker's timers and latched inputs *)

\* C25: an update of a Tripped breaker with auto_reset adds dt to its time
\* in trip; it leaves the breaker Closed, with trip_time and
\* overcurrent_time 0, exactly when the time in trip summed over the updates
\* since the trip has reached reset_delay, and Tripped with that sum as its
\* trip_time otherwise.
C25_AutoReset ==
    \A n \in Nodes :
        (/\ IsCall("update", "CircuitBreaker")
         /\ last.node = n
         /\ last.pre.is_tripped
         /\ last.pre.auto_reset) =>
            /\ components[n].is_tripped <=> dwell.trip < last.pre.reset_delay
            /\ components[n].is_tripped => components[n].trip_time = dwell.trip
            /\ ~components[n].is_tripped =>
                   /\ components[n].trip_time = 0
                   /\ components[n].overcurrent_time = 0

\* the second update after the trip brought the time in trip to the reset
\* delay and Closed the breaker
C25_Witness ==
    /\ IsCall("update", "CircuitBreaker")
    /\ last.pre.is_tripped
    /\ last.pre.auto_reset
    /\ last.pre.trip_time > 0
    /\ last.pre.trip_time < last.pre.reset_delay
    /\ ~components[last.node].is_tripped
    /\ dwell.trip = last.pre.reset_delay

\* C26: an update of a Closed breaker whose input current is at or below
\* its rating leaves overcurrent_time 0 and the breaker Closed; a delayed
\* breaker is Tripped by an update only when the unbroken run of overcurrent
\* updates ending with it sums to the delay or more; and every update that
\* trips the breaker leaves trip_time 0.
C26_DwellRestarts ==
    \A n \in Nodes :
        (/\ IsCall("update", "CircuitBreaker")
         /\ last.node = n
         /\ ~last.pre.is_tripped) =>
            /\ last.pre.input_current <= last.pre.rating =>
                   /\ components[n].overcurrent_time = 0
                   /\ ~components[n].is_tripped
            /\ (Delayed(last.pre) /\ components[n].is_tripped) =>
                   /\ last.pre.input_current > last.pre.rating
                   /\ dwell.run >= last.pre.trip_curve.delay
            /\ components[n].is_tripped =>
                   /\ components[n].trip_time = 0
                   /\ dwell.trip = 0

\* an update at the rating put an overcurrent dwell already under way back to 0
C26_Witness ==
    /\ IsCall("update", "CircuitBreaker")
    /\ ~last.pre.is_tripped
    /\ last.pre.overcurrent_time > 0
    /\ last.pre.input_current = last.pre.rating
    /\ components[last.node].overcurrent_time = 0

\* the breaker has just gone from Tripped to Closed, by reset() or by the
\* automatic reset of an update
JustReset ==
    /\ "pre" \in DOMAIN last
    /\ last.pre.kind = "CircuitBreaker"
    /\ last.op \in {"reset", "update"}
    /\ last.pre.is_tripped
    /\ ~components[last.node].is_tripped

\* C27: a set_input_voltage / set_input_power / set_input_current call on a
\* Tripped breaker stores its argument, and right after a reset, manual or
\* automatic, the breaker's output voltage, power and current are the
\* values most recently written to its inputs.
C27_LatchedWhileTripped ==
    /\ \A n \in Nodes :
           (/\ "pre" \in DOMAIN last
            /\ last.node = n
            /\ last.pre.kind = "CircuitBreaker"
            /\ last.pre.is_tripped) =>
               /\ last.op = "set_input_voltage" =>
                      components[n].input_voltage = last.args[1]
               /\ last.op = "set_input_power" =>
                      components[n].input_power = last.args[1]
               /\ last.op = "set_input_current" =>
                      components[n].input_current = last.args[1]
    /\ JustReset =>
           /\ get_output_voltage(components[last.node]) = dwell.written.voltage
           /\ get_output_power(components[last.node]) = dwell.written.power
           /\ get_output_current(components[last.node]) = dwell.written.current

\* a breaker reset after its three inputs were rewritten while it was Tripped
C27_Witness ==
    /\ JustReset
    /\ dwell.written.voltage # dwell.at_trip.voltage
    /\ dwell.written.power # dwell.at_trip.power
    /\ dwell.written.current # dwell.at_trip.current
    /\ get_output_voltage(components[last.node]) # dwell.at_trip.voltage

----------------------------------------------------------------------------
(* C28: the Proportional response *)

\* the power the load would consume with input voltage v
PowerAt(c, v) == GenericDcComponent_get_actual_power([c EXCEPT !.input_voltage = v])

\* C28: a load with the Proportional response consumes 0 when it is off or
\* its input voltage is below the minimum, and otherwise nominal power *
\* load_factor * power_factor * f with f = (V - Vmin) / (Vnom - Vmin)
\* capped at 1 (1 when Vnom = Vmin); the power lies between 0 and nominal
\* power * load_factor * power_factor and does not decrease as the input
\* voltage rises.
C28_ProportionalRamp ==
    \A n \in Nodes :
        (/\ components[n].kind = "GenericDcComponent"
         /\ components[n].voltage_response = "Proportional") =>
            LET c == components[n]
                p == GenericDcComponent_get_actual_power(c)
                full == c.nominal_power * c.load_factor * c.power_factor
                num == c.input_voltage - c.min_voltage
                den == c.nominal_voltage - c.min_voltage
            IN /\ (~c.is_on \/ c.input_voltage < c.min_voltage) => p = 0
               /\ (c.is_on /\ c.input_voltage >= c.min_voltage) =>
                      IF den = 0 \/ num >= den
                      THEN p * 10000 = full
                      ELSE p * 10000 * den = full * num
               /\ 0 <= p
               /\ p * 10000 <= full
               /\ \A v1, v2 \in LoadVoltages :
                      v1 <= v2 => PowerAt(c, v1) <= PowerAt(c, v2)

\* a Proportional load whose nominal voltage is its minimum voltage, on and
\* fed exactly that voltage, consuming its full power
C28_Witness ==
    \E n \in Nodes :
        /\ components[n].kind = "GenericDcComponent"
        /\ components[n].voltage_response = "Proportional"
        /\ components[n].is_on
        /\ components[n].nominal_voltage = components[n].min_voltage
        /\ components[n].input_voltage = components[n].min_voltage
        /\ components[n].load_factor = 100
        /\ GenericDcComponent_get_actual_power(components[n]) = 180

----------------------------------------------------------------------------
(* C29, C30: the actuator's commanded flow and its stiction *)

\* C29: after set_valve_opening(x) with x < 0, an update uses a rod-end
\* commanded flow that is not zero and has the magnitude |x| * max_flow_rate,
\* and a cap-end commanded flow of zero.
C29_RodSideFlow ==
    (last.op = "set_valve_opening" /\ last.args[1] < 0) =>
        \A dt \in ActuatorDts :
            LET d == HydraulicActuator_dynamics(actuator, Fin(dt))
            IN /\ d.rod_end_flow # Fin(0)
               /\ FAbs(d.rod_end_flow) =
                      FMul(actuator.valve_max_flow_rate, Fin(-last.args[1]))
               /\ d.cap_end_flow = Fin(0)

\* a == b of f64: NaN equals nothing
FEq(a, b) == a.t # "nan" /\ b.t # "nan" /\ a = b

\* C30: in an update made with the velocity below the threshold, a driving
\* force within the static-friction band is matched by the friction force,
\* so that the acceleration is 0 and the velocity stays what it was; a
\* driving force beyond the band leaves the net force (the acceleration of
\* the unit mass) at the driving force less static_friction in the driving
\* force's direction.
C30_Stiction ==
    (last.op = "update" /\ FLt(FAbs(last.pre.current_velocity), Fin(1))) =>
        LET d == HydraulicActuator_dynamics(last.pre, Fin(last.args[1]))
            band == last.pre.static_friction
        IN IF FLe(FAbs(d.driving_force), band)
           THEN /\ FEq(d.friction_force, d.driving_force)
                /\ FEq(d.acceleration, Fin(0))
                /\ FEq(d.velocity, last.pre.current_velocity)
           ELSE FEq(d.acceleration,
                    FSub(d.driving_force, FMul(FSign(d.driving_force), band)))

\* the driving force every update computes is NaN
DrivingForceIsNaN ==
    last.op = "update" =>
        HydraulicActuator_dynamics(last.pre, Fin(last.args[1])).driving_force = NaN

----------------------------------------------------------------------------
(* C31: the cached currents against the components at return *)

\* C31: when update_system has returned on an acyclic network, every edge's
\* cached current is the difference of the output voltages its two
\* components have at the return, divided by the wire resistance (0 when
\* the resistance is <= 0).
C31_CurrentAtReturn ==
    (last.op = "update_system" /\ Acyclic) =>
        \A i \in 1 .. Len(graph_edges) :
            LET e == graph_edges[i]
                v_from == get_output_voltage(components[e[1]])
                v_to == get_output_voltage(components[e[2]])
            IN edge_current[e] =
                   IF wire_resistance[e] > 0
                   THEN Quot((v_from - v_to) * 1000, wire_resistance[e])
                   ELSE 0

----------------------------------------------------------------------------
(* C34: the orchestrator's one command to the generator *)

\* C34: over E170Systems::update calls with dt >= 0, turn_on has been called
\* once when elapsed_time is above 3.0 and never when it is not; the
\* generator is on exactly from then on; and the call that commands it
\* leaves it with the mechanical input of the command (80 kW, 6000 rpm).
C34_CommandedOnce ==
    /\ e170.turn_on_calls = IF e170.elapsed_time > 3 THEN 1 ELSE 0
    /\ components[generator_node].is_on <=> e170.elapsed_time > 3
    /\ e170.generator_on <=> e170.elapsed_time > 3
    /\ (last.op = "E170Systems_update" /\ last.commanded) =>
           /\ components[generator_node].mechanical_input_power = 80000
           /\ components[generator_node].rpm = 6000

\* a call made after the commanding call, with dt > 0, that did not command
\* the generator again and left its time_on running
C34_Witness ==
    /\ last.op = "E170Systems_update"
    /\ ~last.commanded
    /\ e170.turn_on_calls = 1
    /\ components[generator_node].is_on
    /\ components[generator_node].time_on > 0

----------------------------------------------------------------------------
(* C32: a manual reset inside a network *)

\* no load draws anything: each consumes 0 W
LoadsDrawNothing ==
    \A n \in Nodes :
        components[n].kind = "GenericDcComponent" =>
            GenericDcComponent_get_actual_power(components[n]) = 0

\* generators and buses put out in the next state what they put out in this one
UpstreamSteady ==
    \A n \in Nodes :
        components[n].kind \in {"Generator", "Bus"} =>
            /\ get_output_voltage(components'[n]) = get_output_voltage(components[n])
            /\ get_output_power(components'[n]) = get_output_power(components[n])

\* C32: a breaker that reset() has just brought from Tripped to Closed, in a
\* network whose loads draw no more than its rating, is still Closed after
\* the update_system call that follows while its upstream stays as it is.
C32_StaysClosedAfterReset ==
    [][(/\ last.op = "reset"
        /\ last.pre.is_tripped
        /\ last'.op \in {"update_system", "E170Systems_update"}
        /\ LoadsDrawNothing
        /\ UpstreamSteady)
       => ~components'[last.node].is_tripped]_vars

----------------------------------------------------------------------------
(* C33: the inputs of a node with several predecessors *)

Bijections(S) == {p \in [S -> S] : \A a, b \in S : a # b => p[a] # p[b]}

Inverse(p, y) == CHOOSE x \in DOMAIN p : p[x] = y

RenamedEdge(p, e) == <<p[e[1]], p[e[2]]>>

\* a map keyed by edges, with every edge renamed by p
RenamedEdgeMap(p, f) ==
    [e \in {RenamedEdge(p, x) : x \in DOMAIN f} |->
        f[<<Inverse(p, e[1]), Inverse(p, e[2])>>]]

\* The network the same calls build when the components are added in
\* another order (p renames the node indices) and the wires are connected
\* in another order (q reorders the connects).
Rebuilt(p, q) ==
    [n |-> node_count,
     edges |-> [i \in 1 .. Len(graph_edges) |-> RenamedEdge(p, graph_edges[q[i]])],
     wr |-> RenamedEdgeMap(p, wire_resistance),
     comps |-> [m \in Nodes |-> components[Inverse(p, m)]],
     ec |-> RenamedEdgeMap(p, edge_current)]

Predecessors(n) == {m \in Nodes : HasEdge(m, n)}

\* as built: acyclic, no wire connected twice, no update_system call yet
FreshlyBuilt ==
    /\ Acyclic
    /\ \A i, j \in 1 .. Len(graph_edges) : i # j => graph_edges[i] # graph_edges[j]
    /\ DOMAIN node_voltage = {}
    /\ last.op \in {"add_component", "connect_with_wire"}

\* C33: the inputs a node with several predecessors holds after the first
\* update_system(dt) of a network are the same whatever the order in which
\* the network's components were added and its wires connected.
C33_OrderIndependent ==
    FreshlyBuilt =>
        \A dt \in NetDts, p \in Bijections(Nodes),
           q \in Bijections(1 .. Len(graph_edges)), s \in Nodes :
            Cardinality(Predecessors(s)) >= 2 =>
                LET here == update_system_in(node_count, graph_edges, wire_resistance,
                                             components, <<>>, edge_current, dt)
                    r == Rebuilt(p, q)
                    there == update_system_in(r.n, r.edges, r.wr, r.comps, <<>>,
                                              r.ec, dt)
                IN held_inputs(here.comps[s]) = held_inputs(there.comps[p[s]])

====
